---- MODULE Spec2Model ----
(***************************************************************************)
(* Career Path Explorer backend: the roles / resources store (PostgreSQL   *)
(* schema of db/migrate), the data access functions (db/queries), the      *)
(* request validation schemas (validation/schemas), the four REST handlers *)
(* (routes/roles, routes/resources) and the seed script (db/seed).         *)
(*                                                                         *)
(* JSON values are tagged records: [t |-> "undefined"], [t |-> "null"],    *)
(* [t |-> "string", s |-> ...], [t |-> "array", a |-> <<...>>] and         *)
(* [t |-> "number", hi |-> ..., n |-> ..., frac |-> ...], the number       *)
(* hi * 10^9 + n + frac / 10, so that numbers beyond 32 bits can be        *)
(* written.  Strings are TLA+ strings.                                     *)
(***************************************************************************)
EXTENDS Integers, Sequences, FiniteSets, TLC

\* ------------------------------------------------------------------ bounds
\* number of HTTP requests that can be in flight at the same time
NumClients == 2
\* the roles_id_seq / resources_id_seq values, and the table sizes, up to
\* which requests and direct calls insert (the seed script is not limited)
MaxRoleSeq == 2
MaxResourceSeq == 2
\* the number of entries of the browser's session history up to which
\* navigation is followed
MaxHistory == 3
\* the number of API requests of one component that are pending at a time
MaxPending == 2
\* the length of the resource lists given to a ResourceList on its own
MaxListLen == 3

\* ---------------------------------------------------------- JSON values
Undefined == [t |-> "undefined"]
Null == [t |-> "null"]
Str(s) == [t |-> "string", s |-> s]
Num(n) == [t |-> "number", hi |-> 0, n |-> n, frac |-> 0]
\* a number with a fractional part, n + frac / 10
NumFrac(n, f) == [t |-> "number", hi |-> 0, n |-> n, frac |-> f]
\* the integer hi * 10^9 + n, for hi > 0 and n in 0 .. 10^9 - 1
BigNum(hi, n) == [t |-> "number", hi |-> hi, n |-> n, frac |-> 0]
Arr(a) == [t |-> "array", a |-> a]

\* JavaScript truthiness, as used by `x || y`
Truthy(v) ==
  CASE v.t = "undefined" -> FALSE
    [] v.t = "null" -> FALSE
    [] v.t = "string" -> v.s # ""
    [] v.t = "number" -> ~(v.hi = 0 /\ v.n = 0 /\ v.frac = 0)
    [] OTHER -> TRUE

\* JavaScript `a || b`
OrElse(a, b) == IF Truthy(a) THEN a ELSE b

\* --------------------------------------------------------------- strings
WhiteSpace == {" ", "\t", "\n", "\r"}

RECURSIVE TrimStart(_)
TrimStart(s) ==
  IF Len(s) > 0 /\ SubSeq(s, 1, 1) \in WhiteSpace
    THEN TrimStart(SubSeq(s, 2, Len(s)))
    ELSE s

RECURSIVE TrimEnd(_)
TrimEnd(s) ==
  IF Len(s) > 0 /\ SubSeq(s, Len(s), Len(s)) \in WhiteSpace
    THEN TrimEnd(SubSeq(s, 1, Len(s) - 1))
    ELSE s

\* String.prototype.trim
Trim(s) == TrimEnd(TrimStart(s))

\* a string of n copies of the one-character string c
RECURSIVE Repeat(_, _)
Repeat(c, n) ==
  IF n = 0 THEN ""
  ELSE LET half == Repeat(c, n \div 2)
       IN IF n % 2 = 0 THEN half \o half ELSE half \o half \o c

Letters ==
  {"a", "b", "c", "d", "e", "f", "g", "h", "i", "j", "k", "l", "m",
   "n", "o", "p", "q", "r", "s", "t", "u", "v", "w", "x", "y", "z"}
Digits == {"0", "1", "2", "3", "4", "5", "6", "7", "8", "9"}

\* position of the first occurrence of the one-character string c in s at or
\* after position i, 0 when there is none
RECURSIVE IndexFrom(_, _, _)
IndexFrom(s, c, i) ==
  IF i > Len(s) THEN 0
  ELSE IF SubSeq(s, i, i) = c THEN i
  ELSE IndexFrom(s, c, i + 1)

\* ------------------------------------------------------ validation (zod)
ResourceTypes == {"Video", "Article", "Course"}
DifficultyLevels == {"Beginner", "Intermediate", "Advanced"}

MaxNameLen == 255
MaxTitleLen == 255

ResourceTypeSchema(v) == v.t = "string" /\ v.s \in ResourceTypes
DifficultyLevelSchema(v) == v.t = "string" /\ v.s \in DifficultyLevels

\* the name schema without its refine: z.string().min(1).max(255)
NameSchema_NoRefine(v) ==
  /\ v.t = "string"
  /\ Len(v.s) >= 1
  /\ Len(v.s) <= MaxNameLen

\* z.string().min(1).max(255).refine(val => val.trim().length > 0)
NameSchema(v) ==
  /\ v.t = "string"
  /\ Len(v.s) >= 1
  /\ Len(v.s) <= MaxNameLen
  /\ Len(Trim(v.s)) > 0

\* z.string().min(1).refine(val => val.trim().length > 0)
ShortDescriptionSchema(v) ==
  /\ v.t = "string"
  /\ Len(v.s) >= 1
  /\ Len(Trim(v.s)) > 0

\* z.string().optional().nullable()
OptionalStringSchema(v) == v.t \in {"undefined", "null", "string"}

\* z.array(z.string()).optional().nullable()
OptionalStringArraySchema(v) ==
  \/ v.t \in {"undefined", "null"}
  \/ /\ v.t = "array"
     /\ \A i \in 1..Len(v.a) : v.a[i].t = "string"

CreateRoleSchema(body) ==
  /\ NameSchema(body.name)
  /\ ShortDescriptionSchema(body.short_description)
  /\ OptionalStringSchema(body.long_description)
  /\ OptionalStringArraySchema(body.responsibilities)
  /\ OptionalStringArraySchema(body.skills)

\* z.number().int().positive()
RoleIdSchema(v) == v.t = "number" /\ v.frac = 0 /\ (v.hi > 0 \/ v.n > 0)

\* the title schema without its refine: z.string().min(1).max(255)
TitleSchema_NoRefine(v) ==
  /\ v.t = "string"
  /\ Len(v.s) >= 1
  /\ Len(v.s) <= MaxTitleLen

\* z.string().min(1).max(255).refine(val => val.trim().length > 0)
TitleSchema(v) ==
  /\ v.t = "string"
  /\ Len(v.s) >= 1
  /\ Len(v.s) <= MaxTitleLen
  /\ Len(Trim(v.s)) > 0

\* The schemes whose URLs must have a host.
SpecialSchemes == {"http", "https", "ftp", "ws", "wss"}

RECURSIVE StripSlashes(_)
StripSlashes(s) ==
  IF Len(s) > 0 /\ SubSeq(s, 1, 1) \in {"/", "\\"}
    THEN StripSlashes(SubSeq(s, 2, Len(s)))
    ELSE s

\* z.string().url(): the string parses as a URL (new URL(s) does not throw).
\* The parser strips surrounding white space, wants a scheme (a letter, then
\* letters, digits, +, - or .) followed by ':', and for a special scheme a
\* host that is not empty and holds no space.  Schemes are taken in lower
\* case here.
IsUrl(str) ==
  LET s == Trim(str)
      colon == IndexFrom(s, ":", 1)
      scheme == SubSeq(s, 1, colon - 1)
      rest == StripSlashes(SubSeq(s, colon + 1, Len(s)))
      slash == IndexFrom(rest, "/", 1)
      host == IF slash = 0 THEN rest ELSE SubSeq(rest, 1, slash - 1)
  IN /\ colon > 1
     /\ SubSeq(scheme, 1, 1) \in Letters
     /\ \A i \in 2..Len(scheme) :
          SubSeq(scheme, i, i) \in Letters \cup Digits \cup {"+", "-", "."}
     /\ scheme \in SpecialSchemes =>
          /\ Len(host) > 0
          /\ IndexFrom(host, " ", 1) = 0

UrlSchema(v) == v.t = "string" /\ IsUrl(v.s)

CreateResourceSchema(body) ==
  /\ RoleIdSchema(body.role_id)
  /\ TitleSchema(body.title)
  /\ UrlSchema(body.url)
  /\ ResourceTypeSchema(body.resource_type)
  /\ DifficultyLevelSchema(body.difficulty)

\* /^\d+$/
IsDigits(s) ==
  /\ Len(s) >= 1
  /\ \A i \in 1..Len(s) : SubSeq(s, i, i) \in Digits

DigitValue(c) ==
  CASE c = "0" -> 0 [] c = "1" -> 1 [] c = "2" -> 2 [] c = "3" -> 3
    [] c = "4" -> 4 [] c = "5" -> 5 [] c = "6" -> 6 [] c = "7" -> 7
    [] c = "8" -> 8 [] c = "9" -> 9

\* the value of a string of at most 9 decimal digits
RECURSIVE DigitsValue(_)
DigitsValue(s) ==
  IF Len(s) = 0 THEN 0
  ELSE 10 * DigitsValue(SubSeq(s, 1, Len(s) - 1))
         + DigitValue(SubSeq(s, Len(s), Len(s)))

RECURSIVE StripZeros(_)
StripZeros(s) ==
  IF Len(s) > 1 /\ SubSeq(s, 1, 1) = "0"
    THEN StripZeros(SubSeq(s, 2, Len(s)))
    ELSE s

\* Number(s) for a string of decimal digits (up to 18 significant digits)
ToNumber(s) ==
  LET d == StripZeros(s) IN
  IF Len(d) <= 9 THEN Num(DigitsValue(d))
  ELSE BigNum(DigitsValue(SubSeq(d, 1, Len(d) - 9)),
              DigitsValue(SubSeq(d, Len(d) - 8, Len(d))))

\* z.object({ id: z.string().regex(/^\d+$/).transform(Number) })
RoleIdParamSchema(params) == IsDigits(params.id)

\* ------------------------------------------------------------- database
\* INTEGER / SERIAL columns are 32 bits wide
Int4Max == 2147483647
\* VARCHAR(255) of roles.name and resources.title
VarcharLen == 255
\* VARCHAR(50) of resources.resource_type and resources.difficulty
EnumVarcharLen == 50

\* A query parameter bound to an INTEGER column or compared with one: the
\* server accepts an integer in the 32 bit range and raises an error for
\* every other number.  NULL is passed through.
Int4Param(v) ==
  IF v.t \in {"null", "undefined"} THEN [ok |-> TRUE, isNull |-> TRUE, n |-> 0]
  ELSE IF /\ v.t = "number"
          /\ v.frac = 0
          /\ \/ v.hi <= 1
             \/ v.hi = 2 /\ v.n <= Int4Max - 2000000000
    THEN [ok |-> TRUE, isNull |-> FALSE, n |-> v.hi * 1000000000 + v.n]
  ELSE [ok |-> FALSE, isNull |-> FALSE, n |-> 0]

\* a value for a text column that is NOT NULL, at most max characters
\* (max = 0: TEXT, no limit)
TextNotNull(v, max) == v.t = "string" /\ (max = 0 \/ Len(v.s) <= max)

\* a value for a nullable TEXT column
TextNullable(v) == v.t \in {"string", "null", "undefined"}

\* a value for a nullable TEXT[] column
TextArrayNullable(v) ==
  \/ v.t \in {"null", "undefined"}
  \/ v.t = "array" /\ \A i \in 1..Len(v.a) : v.a[i].t \in {"string", "null"}

\* undefined is sent to the server as NULL
ToColumn(v) == IF v.t = "undefined" THEN Null ELSE v

Ids(table) == {row.id : row \in table}

\* the column values of a roles row
RoleColumns(v) ==
  [name |-> v.name,
   short_description |-> v.short_description,
   long_description |-> ToColumn(v.long_description),
   responsibilities |-> ToColumn(v.responsibilities),
   skills |-> ToColumn(v.skills)]

\* the roles table without its PRIMARY KEY
RolesInsert_NoPrimaryKey(rolesTable, id, v) ==
  IF /\ TextNotNull(v.name, VarcharLen)
     /\ TextNotNull(v.short_description, 0)
     /\ TextNullable(v.long_description)
     /\ TextArrayNullable(v.responsibilities)
     /\ TextArrayNullable(v.skills)
  THEN [ok |-> TRUE, row |-> [id |-> id] @@ RoleColumns(v)]
  ELSE [ok |-> FALSE]

\* CREATE TABLE roles: the row that INSERT INTO roles with the values v and
\* the id the sequence gave stores, or an error when a constraint is violated
RolesInsert(rolesTable, id, v) ==
  IF /\ id \notin Ids(rolesTable)
     /\ TextNotNull(v.name, VarcharLen)
     /\ TextNotNull(v.short_description, 0)
     /\ TextNullable(v.long_description)
     /\ TextArrayNullable(v.responsibilities)
     /\ TextArrayNullable(v.skills)
  THEN [ok |-> TRUE, row |-> [id |-> id] @@ RoleColumns(v)]
  ELSE [ok |-> FALSE]

\* the column values of a resources row
ResourceColumns(v) ==
  [role_id |-> Int4Param(v.role_id).n,
   title |-> v.title,
   url |-> v.url,
   resource_type |-> v.resource_type,
   difficulty |-> v.difficulty]

\* the resources table without REFERENCES roles(id)
ResourcesInsert_NoForeignKey(rolesTable, resourcesTable, id, v) ==
  IF /\ id \notin Ids(resourcesTable)
     /\ Int4Param(v.role_id).ok
     /\ ~Int4Param(v.role_id).isNull
     /\ TextNotNull(v.title, VarcharLen)
     /\ TextNotNull(v.url, 0)
     /\ TextNotNull(v.resource_type, EnumVarcharLen)
     /\ v.resource_type.s \in {"Video", "Article", "Course"}
     /\ TextNotNull(v.difficulty, EnumVarcharLen)
     /\ v.difficulty.s \in {"Beginner", "Intermediate", "Advanced"}
  THEN [ok |-> TRUE, row |-> [id |-> id] @@ ResourceColumns(v)]
  ELSE [ok |-> FALSE]

\* the resources table without its CHECK constraints
ResourcesInsert_NoCheck(rolesTable, resourcesTable, id, v) ==
  IF /\ id \notin Ids(resourcesTable)
     /\ Int4Param(v.role_id).ok
     /\ ~Int4Param(v.role_id).isNull
     /\ Int4Param(v.role_id).n \in Ids(rolesTable)
     /\ TextNotNull(v.title, VarcharLen)
     /\ TextNotNull(v.url, 0)
     /\ TextNotNull(v.resource_type, EnumVarcharLen)
     /\ TextNotNull(v.difficulty, EnumVarcharLen)
  THEN [ok |-> TRUE, row |-> [id |-> id] @@ ResourceColumns(v)]
  ELSE [ok |-> FALSE]

\* CREATE TABLE resources: the row that INSERT INTO resources with the values
\* v and the id the sequence gave stores, or an error when a constraint is
\* violated
ResourcesInsert(rolesTable, resourcesTable, id, v) ==
  IF /\ id \notin Ids(resourcesTable)
     /\ Int4Param(v.role_id).ok
     /\ ~Int4Param(v.role_id).isNull
     /\ Int4Param(v.role_id).n \in Ids(rolesTable)
     /\ TextNotNull(v.title, VarcharLen)
     /\ TextNotNull(v.url, 0)
     /\ TextNotNull(v.resource_type, EnumVarcharLen)
     /\ v.resource_type.s \in {"Video", "Article", "Course"}
     /\ TextNotNull(v.difficulty, EnumVarcharLen)
     /\ v.difficulty.s \in {"Beginner", "Intermediate", "Advanced"}
  THEN [ok |-> TRUE, row |-> [id |-> id] @@ ResourceColumns(v)]
  ELSE [ok |-> FALSE]

\* the foreign key without ON DELETE RESTRICT enforcement
RolesDeleteAllowed_Unrestricted(resourcesTable, doomed) == TRUE

\* ON DELETE RESTRICT: rows of roles can be deleted only when no row of
\* resources references one of them
RolesDeleteAllowed(resourcesTable, doomed) ==
  \A r \in resourcesTable : r.role_id \notin Ids(doomed)

\* ORDER BY id
RECURSIVE OrderById(_)
OrderById(rows) ==
  IF rows = {} THEN <<>>
  ELSE LET first == CHOOSE r \in rows : \A q \in rows : r.id <= q.id
       IN <<first>> \o OrderById(rows \ {first})

RoleSummary(role) ==
  [id |-> role.id, name |-> role.name, short_description |-> role.short_description]

\* getAllRoles with SELECT * in place of the three columns
GetAllRolesQuery_SelectAll(rolesTable) == OrderById(rolesTable)

\* SELECT id, name, short_description FROM roles ORDER BY id
GetAllRolesQuery(rolesTable) ==
  LET ordered == OrderById(rolesTable)
  IN [i \in 1..Len(ordered) |-> RoleSummary(ordered[i])]

\* SELECT ... FROM roles WHERE id = $1
RolesByIdQuery(rolesTable, id) ==
  LET p == Int4Param(id) IN
  IF ~p.ok THEN [ok |-> FALSE]
  ELSE [ok |-> TRUE,
        rows |-> IF p.isNull THEN {} ELSE {r \in rolesTable : r.id = p.n}]

\* getResourcesByRoleId without its WHERE clause
ResourcesByRoleIdQuery_NoWhere(resourcesTable, roleId) ==
  LET p == Int4Param(roleId) IN
  IF ~p.ok THEN [ok |-> FALSE]
  ELSE [ok |-> TRUE, rows |-> OrderById(resourcesTable)]

\* SELECT ... FROM resources WHERE role_id = $1 ORDER BY id
ResourcesByRoleIdQuery(resourcesTable, roleId) ==
  LET p == Int4Param(roleId) IN
  IF ~p.ok THEN [ok |-> FALSE]
  ELSE [ok |-> TRUE,
        rows |-> IF p.isNull THEN <<>>
                 ELSE OrderById({r \in resourcesTable : r.role_id = p.n})]

\* createRole passing skills as $4 and responsibilities as $5
CreateRoleParams_ListsSwapped(data) ==
  [name |-> data.name,
   short_description |-> data.short_description,
   long_description |-> OrElse(data.long_description, Null),
   responsibilities |-> OrElse(data.skills, Arr(<<>>)),
   skills |-> OrElse(data.responsibilities, Arr(<<>>))]

\* the parameters createRole passes to its INSERT
CreateRoleParams(data) ==
  [name |-> data.name,
   short_description |-> data.short_description,
   long_description |-> OrElse(data.long_description, Null),
   responsibilities |-> OrElse(data.responsibilities, Arr(<<>>)),
   skills |-> OrElse(data.skills, Arr(<<>>))]

\* ---------------------------------------------------------------- state
VARIABLES
  roles,             \* rows of table roles
  resources,         \* rows of table resources
  roles_id_seq,      \* next value of the sequence behind roles.id
  resources_id_seq,  \* next value of the sequence behind resources.id
  pc,                \* per client: the await its request handler stands at
  data,              \* per client: the handler's local data
  res,               \* what the last step sent or returned: an HTTP response,
                     \* the result of a direct call or of an SQL statement
  seedPc,            \* the statement the seed script executes next
  seedI,             \* the seed script's loop index
  roleIds,           \* the seed script's map from role name to id
  log,               \* the console.error calls of the latest step of a
                     \* request handler, in the order they were made
  dbUp,              \* the database server answers queries
  roleRemoved,       \* history: the clients whose handler waits for its
                     \* insert and whose role has been removed since the
                     \* handler's existence check
  entries,           \* browser: the session history, a list of
                     \* [path, doc] (doc: the document load it belongs to)
  index,             \* browser: the position of the current entry
  page,              \* React: the mounted route element and its params
  ui,                \* React: the state of the mounted RoleList or
                     \* RoleDetailPage (loading, error, roles / role)
  requests,          \* the API requests of the mounted component that have
                     \* not settled, in the order they were started
  selectedDifficulty \* React: the state of the mounted ResourceList

dbVars == <<roles, resources, roles_id_seq, resources_id_seq>>
apiVars == <<pc, data, log, roleRemoved>>
seedVars == <<seedPc, seedI, roleIds>>
frontendVars == <<entries, index, page, ui, requests, selectedDifficulty>>
backendVars == <<roles, resources, roles_id_seq, resources_id_seq, pc, data,
                 res, seedPc, seedI, roleIds, log, dbUp, roleRemoved>>
vars == <<roles, resources, roles_id_seq, resources_id_seq, pc, data, res,
          seedPc, seedI, roleIds, log, dbUp, roleRemoved, entries, index,
          page, ui, requests, selectedDifficulty>>

Clients == 1..NumClients

NoData == [none |-> TRUE]
NoResponse == [status |-> 0]

Init ==
  /\ roles = {}
  /\ resources = {}
  /\ roles_id_seq = 1
  /\ resources_id_seq = 1
  /\ pc = [c \in Clients |-> "idle"]
  /\ data = [c \in Clients |-> NoData]
  /\ res = NoResponse
  /\ seedPc = "exited"
  /\ seedI = 0
  /\ roleIds = <<>>
  /\ log = <<>>
  /\ dbUp = TRUE
  /\ roleRemoved = {}
  /\ entries = <<>>
  /\ index = 0
  /\ page = [name |-> "none"]
  /\ ui = NoData
  /\ requests = <<>>
  /\ selectedDifficulty = "All"

\* an error response whose body has a message field in place of error
Error_MessageField(status, message) == [status |-> status, message |-> message]

\* the body of an error response
Error(status, message) == [status |-> status, error |-> message]

\* res.status(...).json(...): the handler of client c is finished; req names
\* the endpoint the response answers
Respond(c, req, response) ==
  /\ res' = [req |-> req] @@ response
  /\ pc' = [pc EXCEPT ![c] = "idle"]
  /\ data' = [data EXCEPT ![c] = NoData]
  /\ roleRemoved' = roleRemoved \ {c}
  /\ log' = <<>>

\* the handler of client c waits for the result of its next query
Await(c, label, locals) ==
  /\ pc' = [pc EXCEPT ![c] = label]
  /\ data' = [data EXCEPT ![c] = locals]
  /\ res' = NoResponse
  /\ log' = <<>>
  /\ roleRemoved' = roleRemoved \ {c}

\* the errors that the promise of a query is rejected with: the pool cannot
\* reach the server, a value is out of the range of its column, a constraint
\* of a table is violated
ConnectionError ==
  [message |-> "connect ECONNREFUSED 127.0.0.1:5432",
   stack |-> "Error: connect ECONNREFUSED 127.0.0.1:5432 at TCPConnectWrap.afterConnect"]

OutOfRangeError ==
  [message |-> "value is out of range for type integer",
   stack |-> "error: value is out of range for type integer at Parser.parseErrorMessage"]

ConstraintError ==
  [message |-> "insert or update on table violates constraint",
   stack |-> "error: insert or update on table violates constraint at Parser.parseErrorMessage"]

\* console.error(label, text); sent: whether the response of the request had
\* been sent when the call was made
ConsoleError(label, text, sent) == [label |-> label, text |-> text, sent |-> sent]

\* a catch block that sends the response without writing to the log
Catch_NoLog(c, req, label, error, message) ==
  /\ res' = [req |-> req] @@ Error(500, message)
  /\ pc' = [pc EXCEPT ![c] = "idle"]
  /\ data' = [data EXCEPT ![c] = NoData]
  /\ roleRemoved' = roleRemoved \ {c}
  /\ log' = <<>>

\* the catch block of a route handler: console.error(label, error), which
\* prints the stack of an Error (it starts with the message), and then
\* res.status(500).json({error: message, ...})
Catch(c, req, label, error, message) ==
  /\ res' = [req |-> req] @@ Error(500, message)
  /\ pc' = [pc EXCEPT ![c] = "idle"]
  /\ data' = [data EXCEPT ![c] = NoData]
  /\ roleRemoved' = roleRemoved \ {c}
  /\ log' = <<ConsoleError(label, error.stack, FALSE)>>

\* The inserts of requests and direct calls are modelled while the sequence
\* and the table are within the bounds.
RolesInsertModelled ==
  roles_id_seq <= MaxRoleSeq /\ Cardinality(roles) < MaxRoleSeq

ResourcesInsertModelled ==
  resources_id_seq <= MaxResourceSeq /\ Cardinality(resources) < MaxResourceSeq

\* ---------------------------------------------------- GET /api/roles
GetRoles(c) ==
  /\ pc[c] = "idle"
  /\ IF ~dbUp
       THEN Catch(c, "GET /api/roles", "Error fetching roles:",
                  ConnectionError, "Failed to fetch roles")
       ELSE Respond(c, "GET /api/roles",
                    [status |-> 200, roles |-> GetAllRolesQuery(roles)])
  /\ UNCHANGED dbVars
  /\ UNCHANGED seedVars
  /\ UNCHANGED frontendVars
  /\ UNCHANGED dbUp

\* ------------------------------------------------ GET /api/roles/:id
\* validation of the path parameter and the first query of getRoleById
GetRole(c, params) ==
  /\ pc[c] = "idle"
  /\ IF ~RoleIdParamSchema(params)
       THEN Respond(c, "GET /api/roles/:id", Error(400, "Invalid ID format"))
       ELSE LET id == ToNumber(params.id)
                q == RolesByIdQuery(roles, id)
            IN IF ~dbUp
                 THEN Catch(c, "GET /api/roles/:id", "Error fetching role by ID:",
                            ConnectionError, "Failed to fetch role")
               ELSE IF ~q.ok
                 THEN Catch(c, "GET /api/roles/:id", "Error fetching role by ID:",
                            OutOfRangeError, "Failed to fetch role")
               ELSE IF Cardinality(q.rows) = 0
                 THEN Respond(c, "GET /api/roles/:id", Error(404, "Role not found"))
               ELSE Await(c, "getRoleResources",
                          [id |-> id, role |-> CHOOSE r \in q.rows : TRUE])
  /\ UNCHANGED dbVars
  /\ UNCHANGED seedVars
  /\ UNCHANGED frontendVars
  /\ UNCHANGED dbUp

\* the second query of getRoleById and the response
GetRoleResources(c) ==
  /\ pc[c] = "getRoleResources"
  /\ LET q == ResourcesByRoleIdQuery(resources, data[c].id) IN
       IF ~dbUp
         THEN Catch(c, "GET /api/roles/:id", "Error fetching role by ID:",
                    ConnectionError, "Failed to fetch role")
       ELSE IF ~q.ok
         THEN Catch(c, "GET /api/roles/:id", "Error fetching role by ID:",
                    OutOfRangeError, "Failed to fetch role")
         ELSE Respond(c, "GET /api/roles/:id", [status |-> 200,
                          role |-> data[c].role @@ [resources |-> q.rows]])
  /\ UNCHANGED dbVars
  /\ UNCHANGED seedVars
  /\ UNCHANGED frontendVars
  /\ UNCHANGED dbUp

\* --------------------------------------------------- POST /api/roles
\* createRole: INSERT INTO roles ... RETURNING, with the id the sequence gives
CreateRoleCall(d) == RolesInsert(roles, roles_id_seq, CreateRoleParams(d))

\* POST /api/roles replacing the stored role of the same name
PostRoles_Upsert(c, body) ==
  /\ pc[c] = "idle"
  /\ IF ~CreateRoleSchema(body)
       THEN /\ Respond(c, "POST /api/roles", Error(400, "Validation failed"))
            /\ UNCHANGED dbVars
     ELSE IF ~dbUp
       THEN /\ Catch(c, "POST /api/roles", "Error creating role:",
                     ConnectionError, "Failed to create role")
            /\ UNCHANGED dbVars
       ELSE /\ RolesInsertModelled
            /\ roles_id_seq' = roles_id_seq + 1
            /\ UNCHANGED <<resources, resources_id_seq>>
            /\ LET ins == CreateRoleCall(body) IN
                 IF ins.ok
                   THEN /\ roles' = {r \in roles : r.name # ins.row.name}
                                       \cup {ins.row}
                        /\ Respond(c, "POST /api/roles",
                                   [status |-> 201, role |-> ins.row])
                   ELSE /\ roles' = roles
                        /\ Catch(c, "POST /api/roles", "Error creating role:",
                                 ConstraintError, "Failed to create role")
  /\ UNCHANGED seedVars
  /\ UNCHANGED frontendVars
  /\ UNCHANGED dbUp

PostRoles(c, body) ==
  /\ pc[c] = "idle"
  /\ IF ~CreateRoleSchema(body)
       THEN /\ Respond(c, "POST /api/roles", Error(400, "Validation failed"))
            /\ UNCHANGED dbVars
     ELSE IF ~dbUp
       THEN /\ Catch(c, "POST /api/roles", "Error creating role:",
                     ConnectionError, "Failed to create role")
            /\ UNCHANGED dbVars
       ELSE /\ RolesInsertModelled
            /\ roles_id_seq' = roles_id_seq + 1
            /\ UNCHANGED <<resources, resources_id_seq>>
            /\ LET ins == CreateRoleCall(body) IN
                 IF ins.ok
                   THEN /\ roles' = roles \cup {ins.row}
                        /\ Respond(c, "POST /api/roles",
                                   [status |-> 201, role |-> ins.row])
                   ELSE /\ roles' = roles
                        /\ Catch(c, "POST /api/roles", "Error creating role:",
                                 ConstraintError, "Failed to create role")
  /\ UNCHANGED seedVars
  /\ UNCHANGED frontendVars
  /\ UNCHANGED dbUp

\* ----------------------------------------------- POST /api/resources
\* the handler with roleExists called before the body is validated
PostResources_ExistenceFirst(c, body) ==
  /\ pc[c] = "idle"
  /\ LET q == RolesByIdQuery(roles, body.role_id) IN
       IF ~dbUp
         THEN Catch(c, "POST /api/resources", "Error creating resource:",
                    ConnectionError, "Failed to create resource")
       ELSE IF ~q.ok
         THEN Catch(c, "POST /api/resources", "Error creating resource:",
                    OutOfRangeError, "Failed to create resource")
       ELSE IF ~(Cardinality(q.rows) > 0)
         THEN Respond(c, "POST /api/resources", Error(404, "Role not found"))
       ELSE IF ~CreateResourceSchema(body)
         THEN Respond(c, "POST /api/resources", Error(400, "Validation failed"))
       ELSE Await(c, "createResource", body)
  /\ UNCHANGED dbVars
  /\ UNCHANGED seedVars
  /\ UNCHANGED frontendVars
  /\ UNCHANGED dbUp

\* validation of the body and roleExists: SELECT 1 FROM roles WHERE id = $1
PostResources(c, body) ==
  /\ pc[c] = "idle"
  /\ IF ~CreateResourceSchema(body)
       THEN Respond(c, "POST /api/resources", Error(400, "Validation failed"))
       ELSE LET q == RolesByIdQuery(roles, body.role_id) IN
              IF ~dbUp
                THEN Catch(c, "POST /api/resources", "Error creating resource:",
                           ConnectionError, "Failed to create resource")
              ELSE IF ~q.ok
                THEN Catch(c, "POST /api/resources", "Error creating resource:",
                           OutOfRangeError, "Failed to create resource")
              ELSE IF ~(Cardinality(q.rows) > 0)
                THEN Respond(c, "POST /api/resources", Error(404, "Role not found"))
              ELSE Await(c, "createResource", body)
  /\ UNCHANGED dbVars
  /\ UNCHANGED seedVars
  /\ UNCHANGED frontendVars
  /\ UNCHANGED dbUp

\* createResource passing url as $2 and title as $3
CreateResourceParams_TitleUrlSwapped(d) ==
  [role_id |-> d.role_id,
   title |-> d.url,
   url |-> d.title,
   resource_type |-> d.resource_type,
   difficulty |-> d.difficulty]

\* createResource: INSERT INTO resources ... RETURNING
\* the parameters createResource passes to its INSERT
CreateResourceParams(d) ==
  [role_id |-> d.role_id,
   title |-> d.title,
   url |-> d.url,
   resource_type |-> d.resource_type,
   difficulty |-> d.difficulty]

CreateResourceCall(d) ==
  ResourcesInsert(roles, resources, resources_id_seq, CreateResourceParams(d))

\* the handler's createResource call and the response
PostResourcesCreate(c) ==
  /\ pc[c] = "createResource"
  /\ IF ~dbUp
       THEN /\ Catch(c, "POST /api/resources", "Error creating resource:",
                     ConnectionError, "Failed to create resource")
            /\ UNCHANGED <<resources, resources_id_seq>>
       ELSE /\ ResourcesInsertModelled
            /\ resources_id_seq' = resources_id_seq + 1
            /\ LET ins == CreateResourceCall(data[c]) IN
                 IF ins.ok
                   THEN /\ resources' = resources \cup {ins.row}
                        /\ Respond(c, "POST /api/resources",
                                   [status |-> 201, resource |-> ins.row])
                   ELSE /\ resources' = resources
                        /\ Catch(c, "POST /api/resources",
                                 "Error creating resource:",
                                 ConstraintError, "Failed to create resource")
  /\ UNCHANGED <<roles, roles_id_seq>>
  /\ UNCHANGED seedVars
  /\ UNCHANGED frontendVars
  /\ UNCHANGED dbUp

\* ----------------------------------------------------------- middleware
\* the error express.json() passes to next() for a body that is not JSON text
JsonParseError ==
  [message |-> "Unexpected token } in JSON at position 9",
   stack |-> "SyntaxError: Unexpected token } in JSON at position 9 at JSON.parse (<anonymous>)"]

\* the global error handler: the status it answers with, given res.statusCode
ErrorStatusCode(statusCode) == IF statusCode # 200 THEN statusCode ELSE 500

\* the global error handler, called for the error err of the request req of
\* client c while res.statusCode is statusCode: three console.error calls,
\* then the response (details is undefined outside development)
ErrorHandler(c, req, err, statusCode) ==
  /\ log' = <<ConsoleError("Error occurred:", err.message, FALSE),
              ConsoleError("Stack trace:", err.stack, FALSE),
              ConsoleError("Request:", req, FALSE)>>
  /\ res' = [req |-> req]
              @@ Error(ErrorStatusCode(statusCode),
                       IF err.message # "" THEN err.message
                       ELSE "Internal server error")
  /\ pc' = [pc EXCEPT ![c] = "idle"]
  /\ data' = [data EXCEPT ![c] = NoData]
  /\ roleRemoved' = roleRemoved \ {c}

\* a POST to path whose body is not well-formed JSON: express.json() fails,
\* no status has been set on the response, the route handler does not run
PostMalformedJson(c, path) ==
  /\ pc[c] = "idle"
  /\ ErrorHandler(c, "POST " \o path, JsonParseError, 200)
  /\ UNCHANGED dbVars
  /\ UNCHANGED seedVars
  /\ UNCHANGED frontendVars
  /\ UNCHANGED dbUp

\* ---------------------------------------------------- database server
\* the database server stops answering: every query is rejected
DatabaseDown ==
  /\ dbUp
  /\ dbUp' = FALSE
  /\ UNCHANGED <<dbVars, apiVars, res, seedVars, frontendVars>>

\* the database server answers again
DatabaseUp ==
  /\ ~dbUp
  /\ dbUp' = TRUE
  /\ UNCHANGED <<dbVars, apiVars, res, seedVars, frontendVars>>

\* ------------------------------------- direct calls of the query functions
\* createRole(d), called as the persistence tests call it
DirectCreateRole(d) ==
  /\ RolesInsertModelled
  /\ roles_id_seq' = roles_id_seq + 1
  /\ LET ins == CreateRoleCall(d) IN
       IF ins.ok
         THEN /\ roles' = roles \cup {ins.row}
              /\ res' = [status |-> 0, call |-> "createRole", ok |-> TRUE,
                         row |-> ins.row]
         ELSE /\ roles' = roles
              /\ res' = [status |-> 0, call |-> "createRole", ok |-> FALSE]
  /\ UNCHANGED <<resources, resources_id_seq>>
  /\ UNCHANGED apiVars
  /\ UNCHANGED seedVars
  /\ UNCHANGED frontendVars
  /\ UNCHANGED dbUp

\* createResource(d), called as the persistence tests call it
DirectCreateResource(d) ==
  /\ ResourcesInsertModelled
  /\ resources_id_seq' = resources_id_seq + 1
  /\ LET ins == CreateResourceCall(d) IN
       IF ins.ok
         THEN /\ resources' = resources \cup {ins.row}
              /\ res' = [status |-> 0, call |-> "createResource", ok |-> TRUE,
                         row |-> ins.row]
         ELSE /\ resources' = resources
              /\ res' = [status |-> 0, call |-> "createResource", ok |-> FALSE]
  /\ UNCHANGED <<roles, roles_id_seq>>
  /\ UNCHANGED apiVars
  /\ UNCHANGED seedVars
  /\ UNCHANGED frontendVars
  /\ UNCHANGED dbUp

\* ------------------------------------------- SQL of the tests' clean-up
\* the clients whose handler has found its role and waits for its insert,
\* for the roles of the given ids
WaitingForRole(ids) ==
  {c \in Clients : /\ pc[c] = "createResource"
                   /\ Int4Param(data[c].role_id).n \in ids}

\* DELETE FROM resources WHERE role_id = $1
SqlDeleteResourcesByRole(roleId) ==
  /\ resources' = {r \in resources : r.role_id # roleId}
  /\ res' = [status |-> 0, sql |-> "DELETE FROM resources WHERE role_id",
             ok |-> TRUE]
  /\ UNCHANGED <<roles, roles_id_seq, resources_id_seq>>
  /\ UNCHANGED apiVars
  /\ UNCHANGED seedVars
  /\ UNCHANGED frontendVars
  /\ UNCHANGED dbUp

\* DELETE FROM resources WHERE id = $1
SqlDeleteResource(id) ==
  /\ resources' = {r \in resources : r.id # id}
  /\ res' = [status |-> 0, sql |-> "DELETE FROM resources WHERE id",
             ok |-> TRUE]
  /\ UNCHANGED <<roles, roles_id_seq, resources_id_seq>>
  /\ UNCHANGED apiVars
  /\ UNCHANGED seedVars
  /\ UNCHANGED frontendVars
  /\ UNCHANGED dbUp

\* DELETE FROM roles WHERE id = $1
SqlDeleteRole(id) ==
  /\ LET doomed == {r \in roles : r.id = id} IN
       IF RolesDeleteAllowed(resources, doomed)
         THEN /\ roles' = roles \ doomed
              /\ res' = [status |-> 0, sql |-> "DELETE FROM roles WHERE id",
                         ok |-> TRUE]
         ELSE /\ roles' = roles
              /\ res' = [status |-> 0, sql |-> "DELETE FROM roles WHERE id",
                         ok |-> FALSE]
  /\ UNCHANGED <<resources, roles_id_seq, resources_id_seq>>
  /\ UNCHANGED <<pc, data, log>>
  /\ roleRemoved' = roleRemoved \cup WaitingForRole(Ids(roles) \ Ids(roles'))
  /\ UNCHANGED seedVars
  /\ UNCHANGED frontendVars
  /\ UNCHANGED dbUp

\* --------------------------------------------------------- seed script
\* SAMPLE_ROLES
SAMPLE_ROLES ==
  <<
    [name |-> "Software Engineer",
     short_description |->
       "Design, develop, and maintain software applications and systems.",
     long_description |->
       "Software Engineers are the architects of the digital world. They write code to create applications, websites, and systems that solve real-world problems. This role involves designing software solutions, writing clean and efficient code, debugging issues, and collaborating with teams to bring ideas to life.",
     responsibilities |->
       <<"Write clean, maintainable code in various programming languages",
         "Design and implement software features and functionality",
         "Debug and fix software issues",
         "Collaborate with product managers and designers",
         "Participate in code reviews and testing",
         "Document code and technical processes">>,
     skills |->
       <<"Programming languages (Python, JavaScript, Java, etc.)",
         "Problem-solving and algorithmic thinking",
         "Version control (Git)",
         "Software design patterns",
         "Testing and debugging",
         "Communication and teamwork">>],
    [name |-> "QA Engineer",
     short_description |->
       "Ensure software quality through testing and quality assurance processes.",
     long_description |->
       "Quality Assurance Engineers are the guardians of software quality. They design and execute tests to find bugs before users do, ensuring that applications work correctly and provide a great user experience. QA Engineers think critically about how software might fail and create comprehensive test plans to catch issues early.",
     responsibilities |->
       <<"Design and execute test plans and test cases",
         "Identify, document, and track software defects",
         "Perform manual and automated testing",
         "Verify bug fixes and feature implementations",
         "Collaborate with developers to improve quality",
         "Maintain testing documentation and reports">>,
     skills |->
       <<"Testing methodologies and best practices",
         "Test automation tools (Selenium, Cypress)",
         "Attention to detail",
         "Analytical thinking",
         "Bug tracking systems (Jira)",
         "Basic programming knowledge">>],
    [name |-> "Data Scientist",
     short_description |->
       "Analyze complex data to extract insights and build predictive models.",
     long_description |->
       "Data Scientists are modern-day detectives who uncover patterns and insights hidden in data. They use statistics, machine learning, and programming to analyze large datasets, build predictive models, and help organizations make data-driven decisions. This role combines mathematics, programming, and business understanding.",
     responsibilities |->
       <<"Collect, clean, and analyze large datasets",
         "Build and train machine learning models",
         "Create data visualizations and reports",
         "Communicate findings to stakeholders",
         "Develop data pipelines and workflows",
         "Stay current with ML/AI advancements">>,
     skills |->
       <<"Python and data science libraries (pandas, scikit-learn)",
         "Statistics and probability",
         "Machine learning algorithms",
         "Data visualization (Matplotlib, Tableau)",
         "SQL and database querying",
         "Critical thinking and communication">>],
    [name |-> "UX/UI Designer",
     short_description |->
       "Create intuitive and visually appealing user interfaces and experiences.",
     long_description |->
       "UX/UI Designers are the artists and psychologists of the tech world. They research how users interact with products, design intuitive interfaces, and create beautiful visual designs that make technology accessible and enjoyable. This role requires both creative and analytical thinking to balance aesthetics with usability.",
     responsibilities |->
       <<"Conduct user research and usability testing",
         "Create wireframes, mockups, and prototypes",
         "Design user interfaces and visual elements",
         "Develop design systems and style guides",
         "Collaborate with developers and product teams",
         "Iterate designs based on user feedback">>,
     skills |->
       <<"Design tools (Figma, Sketch, Adobe XD)",
         "User research methodologies",
         "Visual design principles",
         "Prototyping and wireframing",
         "HTML/CSS basics",
         "Empathy and user-centered thinking">>],
    [name |-> "DevOps Engineer",
     short_description |->
       "Automate and optimize software deployment and infrastructure management.",
     long_description |->
       "DevOps Engineers are the bridge between development and operations. They automate deployment processes, manage cloud infrastructure, and ensure that applications run reliably and efficiently in production. This role combines software development skills with system administration knowledge to create seamless deployment pipelines.",
     responsibilities |->
       <<"Build and maintain CI/CD pipelines",
         "Manage cloud infrastructure (AWS, Azure, GCP)",
         "Automate deployment and scaling processes",
         "Monitor system performance and reliability",
         "Implement security best practices",
         "Troubleshoot production issues">>,
     skills |->
       <<"Cloud platforms (AWS, Azure, GCP)",
         "Containerization (Docker, Kubernetes)",
         "CI/CD tools (Jenkins, GitHub Actions)",
         "Scripting (Bash, Python)",
         "Infrastructure as Code (Terraform)",
         "System administration and networking">>]
  >>

\* SAMPLE_RESOURCES
SAMPLE_RESOURCES ==
  <<
    [role_name |-> "Software Engineer",
     title |-> "CS50: Introduction to Computer Science",
     url |->
       "https://cs50.harvard.edu/",
     resource_type |-> "Course", difficulty |-> "Beginner"],
    [role_name |-> "Software Engineer",
     title |-> "freeCodeCamp: Learn to Code",
     url |->
       "https://www.freecodecamp.org/",
     resource_type |-> "Course", difficulty |-> "Beginner"],
    [role_name |-> "Software Engineer",
     title |-> "The Odin Project",
     url |->
       "https://www.theodinproject.com/",
     resource_type |-> "Course", difficulty |-> "Intermediate"],
    [role_name |-> "Software Engineer",
     title |-> "Clean Code by Robert Martin",
     url |->
       "https://www.amazon.com/Clean-Code-Handbook-Software-Craftsmanship/dp/0132350882",
     resource_type |-> "Article", difficulty |-> "Intermediate"],
    [role_name |-> "QA Engineer",
     title |-> "Software Testing Tutorial",
     url |->
       "https://www.guru99.com/software-testing.html",
     resource_type |-> "Article", difficulty |-> "Beginner"],
    [role_name |-> "QA Engineer",
     title |-> "Test Automation University",
     url |->
       "https://testautomationu.applitools.com/",
     resource_type |-> "Course", difficulty |-> "Intermediate"],
    [role_name |-> "QA Engineer",
     title |-> "Introduction to Selenium",
     url |->
       "https://www.selenium.dev/documentation/",
     resource_type |-> "Article", difficulty |-> "Intermediate"],
    [role_name |-> "QA Engineer",
     title |-> "Cypress Testing Tutorial",
     url |->
       "https://www.youtube.com/watch?v=u8vMu7viCm8",
     resource_type |-> "Video", difficulty |-> "Intermediate"],
    [role_name |-> "Data Scientist",
     title |-> "Python for Data Science",
     url |->
       "https://www.coursera.org/learn/python-for-applied-data-science-ai",
     resource_type |-> "Course", difficulty |-> "Beginner"],
    [role_name |-> "Data Scientist",
     title |-> "Introduction to Machine Learning",
     url |->
       "https://www.youtube.com/watch?v=ukzFI9rgwfU",
     resource_type |-> "Video", difficulty |-> "Beginner"],
    [role_name |-> "Data Scientist",
     title |-> "Kaggle Learn",
     url |->
       "https://www.kaggle.com/learn",
     resource_type |-> "Course", difficulty |-> "Intermediate"],
    [role_name |-> "Data Scientist",
     title |-> "Deep Learning Specialization",
     url |->
       "https://www.coursera.org/specializations/deep-learning",
     resource_type |-> "Course", difficulty |-> "Advanced"],
    [role_name |-> "UX/UI Designer",
     title |-> "Google UX Design Certificate",
     url |->
       "https://www.coursera.org/professional-certificates/google-ux-design",
     resource_type |-> "Course", difficulty |-> "Beginner"],
    [role_name |-> "UX/UI Designer",
     title |-> "Laws of UX",
     url |->
       "https://lawsofux.com/",
     resource_type |-> "Article", difficulty |-> "Beginner"],
    [role_name |-> "UX/UI Designer",
     title |-> "Figma Tutorial for Beginners",
     url |->
       "https://www.youtube.com/watch?v=FTFaQWZBqQ8",
     resource_type |-> "Video", difficulty |-> "Beginner"],
    [role_name |-> "UX/UI Designer",
     title |-> "Nielsen Norman Group Articles",
     url |->
       "https://www.nngroup.com/articles/",
     resource_type |-> "Article", difficulty |-> "Intermediate"],
    [role_name |-> "DevOps Engineer",
     title |-> "Docker Tutorial for Beginners",
     url |->
       "https://www.youtube.com/watch?v=fqMOX6JJhGo",
     resource_type |-> "Video", difficulty |-> "Beginner"],
    [role_name |-> "DevOps Engineer",
     title |-> "AWS Cloud Practitioner Essentials",
     url |->
       "https://aws.amazon.com/training/digital/aws-cloud-practitioner-essentials/",
     resource_type |-> "Course", difficulty |-> "Beginner"],
    [role_name |-> "DevOps Engineer",
     title |-> "Kubernetes Documentation",
     url |->
       "https://kubernetes.io/docs/home/",
     resource_type |-> "Article", difficulty |-> "Intermediate"],
    [role_name |-> "DevOps Engineer",
     title |-> "CI/CD Pipeline Tutorial",
     url |->
       "https://www.youtube.com/watch?v=scEDHsr3APg",
     resource_type |-> "Video", difficulty |-> "Intermediate"]
  >>

\* a string[] as a JSON array
StrArr(a) == Arr([i \in 1..Len(a) |-> Str(a[i])])

\* roleIds[name], undefined when the name is not in the map
RoleIdOf(map, name) ==
  IF name \in DOMAIN map THEN Num(map[name]) ELSE Undefined

\* the catch block: the error is printed and the process exits
SeedFail ==
  /\ seedPc' = "exited"
  /\ seedI' = 0
  /\ roleIds' = <<>>
  /\ res' = [status |-> 0, seed |-> "failed"]

\* npm run seed; the connection test succeeds
SeedStart ==
  /\ seedPc = "exited"
  /\ seedPc' = "deleteResources"
  /\ res' = NoResponse
  /\ UNCHANGED <<seedI, roleIds>>
  /\ UNCHANGED dbVars
  /\ UNCHANGED apiVars
  /\ UNCHANGED frontendVars
  /\ UNCHANGED dbUp

\* DELETE FROM resources
SeedDeleteResources ==
  /\ seedPc = "deleteResources"
  /\ resources' = {}
  /\ seedPc' = "deleteRoles"
  /\ res' = NoResponse
  /\ UNCHANGED <<seedI, roleIds>>
  /\ UNCHANGED <<roles, roles_id_seq, resources_id_seq>>
  /\ UNCHANGED apiVars
  /\ UNCHANGED frontendVars
  /\ UNCHANGED dbUp

\* DELETE FROM roles
SeedDeleteRoles ==
  /\ seedPc = "deleteRoles"
  /\ IF RolesDeleteAllowed(resources, roles)
       THEN /\ roles' = {}
            /\ seedPc' = "restartRoles"
            /\ res' = NoResponse
            /\ UNCHANGED <<seedI, roleIds>>
       ELSE /\ roles' = roles
            /\ SeedFail
  /\ UNCHANGED <<resources, roles_id_seq, resources_id_seq>>
  /\ UNCHANGED <<pc, data, log>>
  /\ roleRemoved' = roleRemoved \cup WaitingForRole(Ids(roles) \ Ids(roles'))
  /\ UNCHANGED frontendVars
  /\ UNCHANGED dbUp

\* the seed script without the restart of roles_id_seq
SeedRestartRoles_NoRestart ==
  /\ seedPc = "restartRoles"
  /\ seedPc' = "restartResources"
  /\ res' = NoResponse
  /\ UNCHANGED <<seedI, roleIds>>
  /\ UNCHANGED dbVars
  /\ UNCHANGED apiVars
  /\ UNCHANGED frontendVars
  /\ UNCHANGED dbUp

\* ALTER SEQUENCE roles_id_seq RESTART WITH 1
SeedRestartRoles ==
  /\ seedPc = "restartRoles"
  /\ roles_id_seq' = 1
  /\ seedPc' = "restartResources"
  /\ res' = NoResponse
  /\ UNCHANGED <<seedI, roleIds>>
  /\ UNCHANGED <<roles, resources, resources_id_seq>>
  /\ UNCHANGED apiVars
  /\ UNCHANGED frontendVars
  /\ UNCHANGED dbUp

\* ALTER SEQUENCE resources_id_seq RESTART WITH 1
SeedRestartResources ==
  /\ seedPc = "restartResources"
  /\ resources_id_seq' = 1
  /\ seedPc' = "insertRoles"
  /\ seedI' = 1
  /\ roleIds' = <<>>
  /\ res' = NoResponse
  /\ UNCHANGED <<roles, resources, roles_id_seq>>
  /\ UNCHANGED apiVars
  /\ UNCHANGED frontendVars
  /\ UNCHANGED dbUp

\* one round of the loop over SAMPLE_ROLES
SeedInsertRole ==
  /\ seedPc = "insertRoles"
  /\ LET role == SAMPLE_ROLES[seedI]
         ins == RolesInsert(roles, roles_id_seq,
                  [name |-> Str(role.name),
                   short_description |-> Str(role.short_description),
                   long_description |-> Str(role.long_description),
                   responsibilities |-> StrArr(role.responsibilities),
                   skills |-> StrArr(role.skills)])
     IN /\ roles_id_seq' = roles_id_seq + 1
        /\ IF ins.ok
             THEN /\ roles' = roles \cup {ins.row}
                  /\ roleIds' = (role.name :> ins.row.id) @@ roleIds
                  /\ res' = NoResponse
                  /\ IF seedI < Len(SAMPLE_ROLES)
                       THEN seedI' = seedI + 1 /\ seedPc' = seedPc
                       ELSE seedI' = 1 /\ seedPc' = "insertResources"
             ELSE /\ roles' = roles
                  /\ SeedFail
  /\ UNCHANGED <<resources, resources_id_seq>>
  /\ UNCHANGED apiVars
  /\ UNCHANGED frontendVars
  /\ UNCHANGED dbUp

\* one round of the loop over SAMPLE_RESOURCES
SeedInsertResource ==
  /\ seedPc = "insertResources"
  /\ LET resource == SAMPLE_RESOURCES[seedI]
         ins == ResourcesInsert(roles, resources, resources_id_seq,
                  [role_id |-> RoleIdOf(roleIds, resource.role_name),
                   title |-> Str(resource.title),
                   url |-> Str(resource.url),
                   resource_type |-> Str(resource.resource_type),
                   difficulty |-> Str(resource.difficulty)])
     IN /\ resources_id_seq' = resources_id_seq + 1
        /\ IF ins.ok
             THEN /\ resources' = resources \cup {ins.row}
                  /\ IF seedI < Len(SAMPLE_RESOURCES)
                       THEN /\ seedI' = seedI + 1
                            /\ UNCHANGED <<seedPc, roleIds>>
                            /\ res' = NoResponse
                       ELSE /\ seedPc' = "exited"
                            /\ seedI' = 0
                            /\ roleIds' = <<>>
                            /\ res' = [status |-> 0, seed |-> "completed"]
             ELSE /\ resources' = resources
                  /\ SeedFail
  /\ UNCHANGED <<roles, roles_id_seq>>
  /\ UNCHANGED apiVars
  /\ UNCHANGED frontendVars
  /\ UNCHANGED dbUp

\* ------------------------------------------------- frontend: API client
\* obj.f of a parsed JSON object, undefined when the object has no such field
Field(obj, f) == IF f \in DOMAIN obj THEN obj[f] ELSE Undefined

\* a JavaScript Error of the given class
ErrorValue(name, message) == [t |-> "Error", name |-> name, message |-> message]

\* new ApiError(status, statusText, details)
ApiError(status, statusText, details) ==
  [t |-> "Error",
   name |-> "ApiError",
   message |-> "API Error " \o ToString(status) \o ": " \o statusText,
   status |-> status,
   statusText |-> statusText,
   details |-> details]

\* response.ok
ResponseOk(response) == response.status >= 200 /\ response.status <= 299

\* fetchApi: what the promise settles with, given what fetch settles with:
\* a network failure, or a response with a status, a status text and a body
\* that is JSON text or not.  The body is parsed before response.ok is tested.
FetchApi(outcome) ==
  IF outcome.t = "failure"
    THEN [ok |-> FALSE, error |-> ErrorValue("TypeError", "Failed to fetch")]
  ELSE IF ~outcome.body.json
    THEN [ok |-> FALSE,
          error |-> ErrorValue("SyntaxError", "Unexpected token < in JSON")]
  ELSE IF ~ResponseOk(outcome)
    THEN [ok |-> FALSE,
          error |-> ApiError(outcome.status, outcome.statusText,
                             OrElse(Field(outcome.body.value, "details"),
                                    Field(outcome.body.value, "error")))]
  ELSE [ok |-> TRUE, value |-> outcome.body.value]

\* the request each API client function sends
ApiRequest(fn, arg) ==
  CASE fn = "getAllRoles" -> [method |-> "GET", url |-> "/api/roles"]
    [] fn = "getRoleById" -> [method |-> "GET", url |-> "/api/roles/" \o arg]
    [] fn = "createRole" -> [method |-> "POST", url |-> "/api/roles"]
    [] fn = "createResource" -> [method |-> "POST", url |-> "/api/resources"]

\* a call of an API client function, as the client's tests call it: fetch
\* settles with outcome, res holds what the function's promise settles with
ApiCall(fn, arg, outcome) ==
  /\ res' = [status |-> 0, call |-> fn, request |-> ApiRequest(fn, arg)]
              @@ FetchApi(outcome)
  /\ UNCHANGED <<dbVars, apiVars, seedVars, frontendVars, dbUp>>

\* ---------------------------------------------------- frontend: routing
\* the segments of a path: the pieces between slashes, empty pieces dropped
RECURSIVE Segments(_)
Segments(path) ==
  IF Len(path) = 0 THEN <<>>
  ELSE LET slash == IndexFrom(path, "/", 1) IN
       IF slash = 0 THEN <<path>>
       ELSE IF slash = 1 THEN Segments(SubSeq(path, 2, Len(path)))
       ELSE <<SubSeq(path, 1, slash - 1)>>
              \o Segments(SubSeq(path, slash + 1, Len(path)))

\* the routes of App, in the order they are declared
Routes ==
  <<[path |-> "/", element |-> "LandingPage"],
    [path |-> "/roles/:id", element |-> "RoleDetailPage"],
    [path |-> "*", element |-> "NotFoundPage"]>>

\* matching that accepts a path of which the pattern matches a prefix
RECURSIVE MatchSegments_Prefix(_, _)
MatchSegments_Prefix(pattern, segs) ==
  IF pattern = <<>> THEN [matched |-> TRUE, params |-> <<>>]
  ELSE IF pattern[1] = "*" THEN [matched |-> TRUE, params |-> <<>>]
  ELSE IF segs = <<>> THEN [matched |-> FALSE]
  ELSE LET rest == MatchSegments_Prefix(Tail(pattern), Tail(segs)) IN
       IF SubSeq(pattern[1], 1, 1) = ":"
         THEN IF rest.matched
                THEN [matched |-> TRUE, params |-> <<segs[1]>> \o rest.params]
                ELSE [matched |-> FALSE]
       ELSE IF pattern[1] = segs[1] THEN rest
       ELSE [matched |-> FALSE]

\* matchPath: the pattern's segments against the path's, one by one: a
\* static segment matches itself, a ":name" segment any segment (captured as
\* a parameter), "*" the rest of the path; the whole path must be matched
RECURSIVE MatchSegments(_, _)
MatchSegments(pattern, segs) ==
  IF pattern = <<>> THEN [matched |-> segs = <<>>, params |-> <<>>]
  ELSE IF pattern[1] = "*" THEN [matched |-> TRUE, params |-> <<>>]
  ELSE IF segs = <<>> THEN [matched |-> FALSE]
  ELSE LET rest == MatchSegments(Tail(pattern), Tail(segs)) IN
       IF SubSeq(pattern[1], 1, 1) = ":"
         THEN IF rest.matched
                THEN [matched |-> TRUE, params |-> <<segs[1]>> \o rest.params]
                ELSE [matched |-> FALSE]
       ELSE IF pattern[1] = segs[1] THEN rest
       ELSE [matched |-> FALSE]

\* the score by which routes are ranked: 10 for a static segment, 3 for a
\* parameter, -2 for a splat, plus the number of segments
RECURSIVE RouteScore(_)
RouteScore(pattern) ==
  IF pattern = <<>> THEN 0
  ELSE 1 + RouteScore(Tail(pattern))
         + (IF pattern[1] = "*" THEN -2
            ELSE IF SubSeq(pattern[1], 1, 1) = ":" THEN 3
            ELSE 10)

\* <Routes>: the element of the matching route of the highest score (the
\* earliest declared among equals) and the id parameter, when it has one
MatchRoutes(path) ==
  LET segs == Segments(path)
      matching == {i \in 1..Len(Routes) :
                     MatchSegments(Segments(Routes[i].path), segs).matched}
      best == CHOOSE i \in matching :
                \A j \in matching :
                  \/ RouteScore(Segments(Routes[i].path))
                       > RouteScore(Segments(Routes[j].path))
                  \/ /\ RouteScore(Segments(Routes[i].path))
                          = RouteScore(Segments(Routes[j].path))
                     /\ i <= j
      m == MatchSegments(Segments(Routes[best].path), segs)
  IN [name |-> Routes[best].element,
      id |-> IF Len(m.params) > 0 THEN m.params[1] ELSE ""]

\* ------------------------------------------------- frontend: components
\* Number(id) of a route parameter: the value of a string of digits, NaN for
\* the other parameters that occur here (words)
JsNumber(s) ==
  IF IsDigits(s) THEN [nan |-> FALSE, n |-> DigitsValue(StripZeros(s))]
  ELSE [nan |-> TRUE, n |-> 0]

\* useState initial values of RoleList
RoleListState == [roles |-> <<>>, loading |-> TRUE, error |-> Null]

\* useState initial values of RoleDetailPage
RoleDetailState == [role |-> Null, loading |-> TRUE, error |-> Null]

\* the effect of RoleList, up to its await: the state it sets, the request
\* it starts
RoleListEffect(state, pending) ==
  [ui |-> [state EXCEPT !.loading = TRUE, !.error = Null],
   requests |-> Append(pending, [fn |-> "getAllRoles", arg |-> ""])]

\* the effect of RoleDetailPage for the route parameter id, up to its await
RoleDetailEffect(id, state, pending) ==
  IF id = "" \/ JsNumber(id).nan
    THEN [ui |-> [state EXCEPT !.error = Str("Invalid role ID"),
                               !.loading = FALSE],
          requests |-> pending]
    ELSE [ui |-> [state EXCEPT !.loading = TRUE, !.error = Null],
          requests |-> Append(pending, [fn |-> "getRoleById",
                                        arg |-> ToString(JsNumber(id).n)])]

\* err instanceof Error ? err.message : fallback
ErrorMessage(err, fallback) ==
  IF err.t = "Error" THEN Str(err.message) ELSE Str(fallback)

\* the rest of the effect of RoleList after its await: try / catch / finally
RoleListSettled(state, outcome) ==
  IF outcome.ok
    THEN [state EXCEPT !.roles = outcome.value.roles, !.loading = FALSE]
    ELSE [state EXCEPT
            !.error = ErrorMessage(outcome.error,
                        "Failed to load roles. Please try again later."),
            !.loading = FALSE]

\* the rest of the effect of RoleDetailPage after its await
RoleDetailSettled(state, outcome) ==
  IF outcome.ok
    THEN [state EXCEPT !.role = outcome.value.role, !.loading = FALSE]
    ELSE [state EXCEPT
            !.error = ErrorMessage(outcome.error,
                        "Failed to load role details. Please try again later."),
            !.loading = FALSE]

\* ResourceList with a filter that keeps the resources up to the selected level
FilteredResources_UpToLevel(list, selected) ==
  IF selected = "All" THEN list
  ELSE SelectSeq(list, LAMBDA r :
         \/ r.difficulty = selected
         \/ r.difficulty = "Beginner")

\* ResourceList: filteredResources
FilteredResources(list, selected) ==
  IF selected = "All" THEN list
  ELSE SelectSeq(list, LAMBDA r : r.difficulty = selected)

\* what ResourceList renders
ResourceListView(list, selected) ==
  LET filtered == FilteredResources(list, selected) IN
  [select |-> selected,
   items |-> filtered,
   message |-> IF Len(filtered) = 0 THEN "No resources available" ELSE ""]

\* what RoleList renders
RoleListView(state) ==
  IF state.loading
    THEN [testid |-> "loading-indicator", text |-> "Loading roles..."]
  ELSE IF Truthy(state.error)
    THEN [testid |-> "error-message", text |-> "Error: " \o state.error.s]
  ELSE [testid |-> "role-list", cards |-> state.roles]

\* what RoleDetailPage renders
RoleDetailView(state, selected) ==
  IF state.loading
    THEN [testid |-> "loading-indicator", text |-> "Loading role details..."]
  ELSE IF Truthy(state.error)
    THEN [testid |-> "error-message", text |-> "Error: " \o state.error.s]
  ELSE IF ~Truthy(state.role)
    THEN [testid |-> "error-message", text |-> "Error: Role not found"]
  ELSE [testid |-> "role-detail-page",
        role |-> state.role,
        resourceList |-> ResourceListView(state.role.resources, selected)]

\* what the element of a route renders
PageView(element, state, selected) ==
  CASE element.name = "LandingPage" -> RoleListView(state)
    [] element.name = "RoleDetailPage" -> RoleDetailView(state, selected)
    [] element.name = "NotFoundPage" ->
         [testid |-> "not-found-page", text |-> "404 - Page Not Found"]
    [] OTHER -> [testid |-> "none"]

\* what the browser shows
View == PageView(page, ui, selectedDifficulty)

\* a ResourceList is mounted: RoleDetailPage renders the role
ResourceListMounted(element, state) ==
  PageView(element, state, "All").testid = "role-detail-page"

\* ------------------------------------------------ frontend: navigation
\* What is mounted once the location is path.  Within one document an
\* element of the same route stays mounted and keeps its state; the effect
\* of RoleDetailPage runs again when its id parameter has changed.  A new
\* element is mounted with its initial state and its effect runs.
Shown(path, sameDocument) ==
  LET m == MatchRoutes(path) IN
  IF sameDocument /\ page.name = m.name
    THEN IF m.name = "RoleDetailPage" /\ m.id # page.id
           THEN [page |-> m] @@ RoleDetailEffect(m.id, ui, requests)
           ELSE [page |-> m, ui |-> ui, requests |-> requests]
  ELSE IF m.name = "LandingPage"
    THEN [page |-> m] @@ RoleListEffect(RoleListState, <<>>)
  ELSE IF m.name = "RoleDetailPage"
    THEN [page |-> m] @@ RoleDetailEffect(m.id, RoleDetailState, <<>>)
  ELSE [page |-> m, ui |-> NoData, requests |-> <<>>]

\* React commits what is mounted; a ResourceList that was not mounted
\* before starts with the selection 'All'
Commit(next) ==
  /\ Len(next.requests) <= MaxPending
  /\ page' = next.page
  /\ ui' = next.ui
  /\ requests' = next.requests
  /\ selectedDifficulty' =
       IF ResourceListMounted(page, ui) /\ ResourceListMounted(next.page, next.ui)
         THEN selectedDifficulty
         ELSE "All"

\* navigate(path): a new entry after the current one, in the same document
Navigate(path) ==
  /\ index < MaxHistory
  /\ entries' = Append(SubSeq(entries, 1, index),
                       [path |-> path, doc |-> entries[index].doc])
  /\ index' = index + 1
  /\ Commit(Shown(path, TRUE))
  /\ UNCHANGED backendVars

\* RoleList: handleRoleClick, a click on the card of role id
HandleRoleClick(id) ==
  /\ page.name = "LandingPage"
  /\ View.testid = "role-list"
  /\ \E i \in 1..Len(View.cards) : View.cards[i].id = id
  /\ Navigate("/roles/" \o ToString(id))

\* RoleDetailPage: handleBackClick, a click on 'Back to Roles'
HandleBackClick ==
  /\ page.name = "RoleDetailPage"
  /\ View.testid # "loading-indicator"
  /\ Navigate("/")

\* NotFoundPage: handleGoHome
HandleGoHome ==
  /\ page.name = "NotFoundPage"
  /\ Navigate("/")

\* the browser's back and forward, by delta entries: to an entry of the
\* same document by popstate, to one of another document by loading it
Go(delta) ==
  /\ index > 0
  /\ index + delta \in 1..Len(entries)
  /\ index' = index + delta
  /\ entries' = entries
  /\ Commit(Shown(entries[index + delta].path,
                  entries[index + delta].doc = entries[index].doc))
  /\ UNCHANGED backendVars

\* the user opens a URL of the application: a new document is loaded
DirectUrl(path) ==
  /\ index < MaxHistory
  /\ entries' = Append(SubSeq(entries, 1, index),
                       [path |-> path,
                        doc |-> IF index = 0 THEN 1 ELSE entries[index].doc + 1])
  /\ index' = index + 1
  /\ Commit(Shown(path, FALSE))
  /\ UNCHANGED backendVars

\* the i-th pending request settles: the rest of the effect that awaits it
\* runs and the component renders again
Settle(i, outcome) ==
  /\ i \in 1..Len(requests)
  /\ Commit([page |-> page,
             ui |-> IF requests[i].fn = "getAllRoles"
                      THEN RoleListSettled(ui, outcome)
                      ELSE RoleDetailSettled(ui, outcome),
             requests |-> SubSeq(requests, 1, i - 1)
                            \o SubSeq(requests, i + 1, Len(requests))])
  /\ UNCHANGED <<entries, index>>
  /\ UNCHANGED backendVars

\* handleFilterChange that filters the resources in place
SelectDifficulty_InPlace(value) ==
  /\ ResourceListMounted(page, ui)
  /\ selectedDifficulty' = value
  /\ ui' = [ui EXCEPT !.role.resources = FilteredResources(@, value)]
  /\ UNCHANGED <<entries, index, page, requests>>
  /\ UNCHANGED backendVars

\* ResourceList: handleFilterChange, the user selects an option of the filter
SelectDifficulty(value) ==
  /\ ResourceListMounted(page, ui)
  /\ selectedDifficulty' = value
  /\ UNCHANGED <<entries, index, page, ui, requests>>
  /\ UNCHANGED backendVars

\* ------------------------------------------------------ request inputs
NominalRoleBody ==
  [name |-> Str("QA Engineer"),
   short_description |-> Str("Ensure software quality"),
   long_description |-> Str("Guardians of quality"),
   responsibilities |-> Arr(<<Str("plan"), Str("test")>>),
   skills |-> Arr(<<Str("Jira")>>)]

\* the body with only the required fields
MinimalRoleBody ==
  [NominalRoleBody EXCEPT !.long_description = Undefined,
                          !.responsibilities = Undefined,
                          !.skills = Undefined]

\* POST /api/roles bodies for checking validation: the nominal body with one
\* field replaced, and the bodies without the optional fields
RoleBodies ==
  {[NominalRoleBody EXCEPT !.name = v] :
     v \in {Undefined, Null, Num(7), Str(""), Str("  "),
            Str(Repeat("n", MaxNameLen)), Str(Repeat("n", MaxNameLen + 1))}}
  \cup {[NominalRoleBody EXCEPT !.short_description = v] :
     v \in {Undefined, Null, Str(""), Str(" \t"), Arr(<<>>)}}
  \cup {[NominalRoleBody EXCEPT !.long_description = v] :
     v \in {Undefined, Null, Num(0)}}
  \cup {[NominalRoleBody EXCEPT !.responsibilities = v] :
     v \in {Undefined, Null, Arr(<<Num(1)>>), Str("plan")}}
  \cup {[NominalRoleBody EXCEPT !.skills = v] :
     v \in {Undefined, Null, Arr(<<Null>>)}}
  \cup {MinimalRoleBody,
        [NominalRoleBody EXCEPT !.long_description = Null,
                                !.responsibilities = Null,
                                !.skills = Null]}

\* POST /api/roles bodies for checking what is stored and returned
StoredRoleBodies ==
  {NominalRoleBody,
   MinimalRoleBody,
   [NominalRoleBody EXCEPT !.long_description = Str(""),
                           !.responsibilities = Null,
                           !.skills = Arr(<<>>)],
   [NominalRoleBody EXCEPT !.long_description = Null,
                           !.responsibilities = Arr(<<>>),
                           !.skills = Null],
   [NominalRoleBody EXCEPT !.name = Undefined],
   [NominalRoleBody EXCEPT !.short_description = Str("")]}

NominalResourceBody ==
  [role_id |-> Num(1),
   title |-> Str("Test Resource"),
   url |-> Str("https://example.com/resource"),
   resource_type |-> Str("Video"),
   difficulty |-> Str("Beginner")]

\* the role ids named in POST /api/resources bodies: the ids roles can get,
\* one that is never assigned and one beyond the INTEGER range
BodyRoleIds ==
  {Num(r) : r \in 1..MaxRoleSeq} \cup {Num(999999), BigNum(2, 147483648)}

\* POST /api/resources bodies for checking validation: the nominal body with
\* one field replaced, and invalid bodies that name a role that does not exist
ResourceBodies ==
  {[NominalResourceBody EXCEPT !.role_id = v] :
     v \in BodyRoleIds \cup {Undefined, Null, Str("1"), Num(0), Num(-1),
                             NumFrac(1, 5)}}
  \cup {[NominalResourceBody EXCEPT !.title = v] :
     v \in {Undefined, Str(""), Str(" \n "), Str(Repeat("t", MaxTitleLen + 1)),
            Num(1)}}
  \cup {[NominalResourceBody EXCEPT !.url = v] :
     v \in {Undefined, Str(""), Str("not-a-valid-url"), Str("http://"),
            Str("//example.com/resource")}}
  \cup {[NominalResourceBody EXCEPT !.resource_type = v, !.role_id = r] :
     v \in {Undefined, Null, Str("InvalidType"), Str("video")},
     r \in {Num(1), Num(999999)}}
  \cup {[NominalResourceBody EXCEPT !.difficulty = v] :
     v \in {Undefined, Null, Str("InvalidDifficulty"), Str("Expert")}}

\* POST /api/resources bodies for checking what is stored and returned
StoredResourceBodies ==
  {[NominalResourceBody EXCEPT !.role_id = v] : v \in BodyRoleIds}
  \cup {[NominalResourceBody EXCEPT !.title = Str(" Kaggle Learn"),
                                    !.url = Str("mailto:qa@example.com"),
                                    !.resource_type = Str("Course"),
                                    !.difficulty = Str("Advanced")],
        [NominalResourceBody EXCEPT !.resource_type = Str("InvalidType")],
        [NominalResourceBody EXCEPT !.role_id = Num(999999),
                                    !.url = Str("not-a-valid-url")]}

\* the :id path parameters of GET /api/roles/:id
IdParams ==
  {[id |-> p] : p \in {"0", "1", "2", "02", "999999", "invalid", "1.5", "-1", "1 ",
                       "2147483648", "99999999999"}}

\* what the whole-system specification sends and calls with
SystemRoleBodies ==
  {NominalRoleBody, [NominalRoleBody EXCEPT !.name = Str(" ")]}

SystemResourceBodies ==
  {[NominalResourceBody EXCEPT !.role_id = Num(r)] : r \in 1..MaxRoleSeq}
  \cup {[NominalResourceBody EXCEPT !.difficulty = Str("Expert")]}

\* the arguments of direct createRole calls
DirectRoleData ==
  {MinimalRoleBody,
   [MinimalRoleBody EXCEPT !.name = Str(Repeat("n", VarcharLen + 1))]}

\* the arguments of direct createResource calls
DirectResourceData ==
  {[NominalResourceBody EXCEPT !.role_id = Num(r)] : r \in 1..MaxRoleSeq}
  \cup {[NominalResourceBody EXCEPT !.resource_type = Str("Podcast")],
        [NominalResourceBody EXCEPT !.difficulty = Str("Expert")],
        [NominalResourceBody EXCEPT !.role_id = Num(999999)]}

SystemIdParams == {[id |-> "1"], [id |-> "invalid"]}

\* ------------------------------------------------------- specifications
\* the running system: the REST API, direct calls of the query functions
\* and the tests' clean-up statements, all on one database
Next ==
  \/ \E c \in Clients :
       \/ GetRoles(c)
       \/ \E params \in SystemIdParams : GetRole(c, params)
       \/ GetRoleResources(c)
       \/ \E body \in SystemRoleBodies : PostRoles(c, body)
       \/ \E body \in SystemResourceBodies : PostResources(c, body)
       \/ PostResourcesCreate(c)
  \/ \E d \in DirectRoleData : DirectCreateRole(d)
  \/ \E d \in DirectResourceData : DirectCreateResource(d)
  \/ \E id \in 1..MaxRoleSeq : SqlDeleteResourcesByRole(id)
  \/ \E id \in 1..MaxResourceSeq : SqlDeleteResource(id)
  \/ \E id \in 1..MaxRoleSeq : SqlDeleteRole(id)

Spec == Init /\ [][Next]_vars

\* the seed script, run while resources are created through the API and
\* roles and resources are created by direct calls
SeedNext ==
  \/ \E c \in Clients :
       \/ \E body \in SystemResourceBodies : PostResources(c, body)
       \/ PostResourcesCreate(c)
  \/ \E d \in DirectRoleData : DirectCreateRole(d)
  \/ \E d \in DirectResourceData : DirectCreateResource(d)
  \/ SeedStart
  \/ SeedDeleteResources
  \/ SeedDeleteRoles
  \/ SeedRestartRoles
  \/ SeedRestartResources
  \/ SeedInsertRole
  \/ SeedInsertResource

SeedSpec == Init /\ [][SeedNext]_vars

\* the REST API alone, on a migrated, empty database
ApiNext ==
  \E c \in Clients :
    \/ GetRoles(c)
    \/ \E params \in IdParams : GetRole(c, params)
    \/ GetRoleResources(c)
    \/ \E body \in StoredRoleBodies : PostRoles(c, body)
    \/ \E body \in StoredResourceBodies : PostResources(c, body)
    \/ PostResourcesCreate(c)

ApiSpec == Init /\ [][ApiNext]_vars

\* the two POST endpoints, with bodies of every kind the schemas tell apart
ValidationNext ==
  \E c \in Clients :
    \/ \E body \in RoleBodies : PostRoles(c, body)
    \/ \E body \in ResourceBodies : PostResources(c, body)
    \/ PostResourcesCreate(c)

ValidationSpec == Init /\ [][ValidationNext]_vars

\* the paths of the two POST endpoints
PostPaths == {"/api/roles", "/api/resources"}

\* the server: the four endpoints, bodies that are not JSON, and a database
\* server that can stop and start at any time
ServerNext ==
  \/ \E c \in Clients :
       \/ GetRoles(c)
       \/ \E params \in IdParams : GetRole(c, params)
       \/ GetRoleResources(c)
       \/ \E body \in StoredRoleBodies : PostRoles(c, body)
       \/ \E body \in StoredResourceBodies : PostResources(c, body)
       \/ PostResourcesCreate(c)
       \/ \E path \in PostPaths : PostMalformedJson(c, path)
  \/ DatabaseDown
  \/ DatabaseUp

ServerSpec == Init /\ [][ServerNext]_vars

\* the seed script and DELETE FROM roles statements, run while resources
\* are created through the API and roles are created by direct calls
RemovalNext ==
  \/ \E c \in Clients :
       \/ \E body \in SystemResourceBodies : PostResources(c, body)
       \/ PostResourcesCreate(c)
  \/ \E d \in DirectRoleData : DirectCreateRole(d)
  \/ \E id \in 1..MaxRoleSeq : SqlDeleteRole(id)
  \/ SeedStart
  \/ SeedDeleteResources
  \/ SeedDeleteRoles
  \/ SeedRestartRoles
  \/ SeedRestartResources
  \/ SeedInsertRole
  \/ SeedInsertResource

RemovalSpec == Init /\ [][RemovalNext]_vars

\* the seed script alone, run any number of times on a migrated database
\* that holds roles and resources stored earlier
\* a roles table with one row for each of the given ids
PriorRoles(ids) == {[id |-> i] @@ RoleColumns(MinimalRoleBody) : i \in ids}

\* the tables of resources that a database with the given roles can hold
PriorResourceTables(rolesTable) ==
  {t \in SUBSET {[id |-> i]
                    @@ ResourceColumns([NominalResourceBody
                                          EXCEPT !.role_id = Num(r)]) :
                  i \in {1, 30}, r \in Ids(rolesTable)} :
     \A x \in t : \A y \in t : x.id = y.id => x = y}

\* rows stored earlier, each sequence past the ids drawn from it
SeedAloneInit ==
  /\ \E ids \in SUBSET {1, 2, 7} : roles = PriorRoles(ids)
  /\ resources \in PriorResourceTables(roles)
  /\ roles_id_seq \in {n \in {1, 3, 8} : \A i \in Ids(roles) : i < n}
  /\ resources_id_seq \in {n \in {1, 31} : \A i \in Ids(resources) : i < n}
  /\ pc = [c \in Clients |-> "idle"]
  /\ data = [c \in Clients |-> NoData]
  /\ res = NoResponse
  /\ seedPc = "exited"
  /\ seedI = 0
  /\ roleIds = <<>>
  /\ log = <<>>
  /\ dbUp = TRUE
  /\ roleRemoved = {}
  /\ entries = <<>>
  /\ index = 0
  /\ page = [name |-> "none"]
  /\ ui = NoData
  /\ requests = <<>>
  /\ selectedDifficulty = "All"

SeedAloneNext ==
  \/ SeedStart
  \/ SeedDeleteResources
  \/ SeedDeleteRoles
  \/ SeedRestartRoles
  \/ SeedRestartResources
  \/ SeedInsertRole
  \/ SeedInsertResource

SeedAloneSpec == SeedAloneInit /\ [][SeedAloneNext]_vars

\* ------------------------------------------------------ frontend inputs
\* what fetch settles with
HttpResponse(status, statusText, value) ==
  [t |-> "response", status |-> status, statusText |-> statusText,
   body |-> [json |-> TRUE, value |-> value]]

\* a response whose body is not JSON text
HttpTextResponse(status, statusText) ==
  [t |-> "response", status |-> status, statusText |-> statusText,
   body |-> [json |-> FALSE]]

NetworkFailure == [t |-> "failure"]

\* the roles of GET /api/roles responses
RoleSummaries ==
  <<[id |-> 1, name |-> "Software Engineer",
     short_description |-> "Design, develop, and maintain software"],
    [id |-> 2, name |-> "Data Scientist",
     short_description |-> "Analyze complex data"]>>

\* the resources that resource lists are made of
SampleResource(id, roleId, difficulty) ==
  [id |-> id, role_id |-> roleId, title |-> "Resource " \o ToString(id),
   url |-> "https://example.com/" \o ToString(id),
   resource_type |-> "Article", difficulty |-> difficulty]

\* the role of a GET /api/roles/:id response
RoleDetail(id, list) ==
  [t |-> "object", id |-> id, name |-> "Role " \o ToString(id),
   short_description |-> "Short", long_description |-> "Long",
   responsibilities |-> <<"Write code">>, skills |-> <<"TypeScript">>,
   resources |-> list]

\* rejections with values that fetchApi does not produce: an Error without
\* a message and a value that is not an Error
OtherRejections ==
  {[ok |-> FALSE, error |-> ErrorValue("Error", "")],
   [ok |-> FALSE, error |-> [t |-> "string", s |-> "timeout"]]}

\* what the promise of a component's request can settle with
ComponentOutcomes(request) ==
  IF request.fn = "getAllRoles"
    THEN {FetchApi(o) : o \in
            {HttpResponse(200, "OK", [roles |-> <<>>]),
             HttpResponse(200, "OK", [roles |-> RoleSummaries]),
             HttpResponse(500, "Internal Server Error",
                          [error |-> Str("Failed to fetch roles"),
                           details |-> Str("connection refused")]),
             NetworkFailure}}
         \cup OtherRejections
    ELSE LET id == DigitsValue(request.arg) IN
         {FetchApi(o) : o \in
            {HttpResponse(200, "OK", [role |-> RoleDetail(id, <<>>)]),
             HttpResponse(200, "OK", [role |-> RoleDetail(id,
                <<SampleResource(2 * id - 1, id, "Beginner"),
                  SampleResource(2 * id, id, "Advanced")>>)]),
             HttpResponse(404, "Not Found",
                          [error |-> Str("Role not found"),
                           details |-> Str("No role found with ID "
                                             \o request.arg)]),
             NetworkFailure}}
         \cup OtherRejections

\* the paths users open
Paths == {"/", "/roles/1", "/roles/abc", "/roles", "/about", "/roles/1/edit"}

\* the options of the difficulty filter
FilterOptions == {"All", "Beginner", "Intermediate", "Advanced"}

\* the resources of the lists given to a ResourceList on its own
ListResources ==
  {SampleResource(1, 1, "Beginner"), SampleResource(2, 1, "Advanced"),
   SampleResource(3, 1, "Beginner"), SampleResource(4, 1, "Intermediate")}

\* the lists of up to MaxListLen different resources, in every order
ResourceLists ==
  {list \in UNION {[1..n -> ListResources] : n \in 0..MaxListLen} :
     \A i, j \in 1..Len(list) : i # j => list[i] # list[j]}

\* what fetch settles with in the calls of the API client functions
FetchOutcomes ==
  {NetworkFailure}
  \cup {HttpTextResponse(st[1], st[2]) :
          st \in {<<200, "OK">>, <<502, "Bad Gateway">>}}
  \cup {HttpResponse(st[1], st[2], value) :
          st \in {<<200, "OK">>, <<201, "Created">>, <<400, "Bad Request">>,
                  <<404, "Not Found">>, <<404, "">>,
                  <<500, "Internal Server Error">>},
          value \in {[roles |-> RoleSummaries],
                     [error |-> Str("Role not found")],
                     [error |-> Str("Role not found"),
                      details |-> Str("No role found with ID 7")],
                     [error |-> Str("Validation failed"),
                      details |-> Str("")]}}

\* the calls of the API client functions
ApiCalls ==
  {<<"getAllRoles", "">>, <<"getRoleById", "1">>, <<"getRoleById", "7">>,
   <<"createRole", "">>, <<"createResource", "">>}

\* ---------------------------------------------- frontend specifications
\* the application in a browser: navigation, requests settling in any
\* order, the difficulty filter
FrontendNext ==
  \/ \E path \in Paths : DirectUrl(path)
  \/ \E delta \in {-2, -1, 1, 2} : Go(delta)
  \/ \E id \in {1, 2} : HandleRoleClick(id)
  \/ HandleBackClick
  \/ HandleGoHome
  \/ \E i \in 1..Len(requests) :
       \E outcome \in ComponentOutcomes(requests[i]) : Settle(i, outcome)
  \/ \E value \in FilterOptions : SelectDifficulty(value)

FrontendSpec == Init /\ [][FrontendNext]_vars

\* a RoleDetailPage that has loaded role 1 with any list of resources
ResourceListInit ==
  /\ roles = {}
  /\ resources = {}
  /\ roles_id_seq = 1
  /\ resources_id_seq = 1
  /\ pc = [c \in Clients |-> "idle"]
  /\ data = [c \in Clients |-> NoData]
  /\ res = NoResponse
  /\ seedPc = "exited"
  /\ seedI = 0
  /\ roleIds = <<>>
  /\ log = <<>>
  /\ dbUp = TRUE
  /\ roleRemoved = {}
  /\ entries = <<[path |-> "/roles/1", doc |-> 1]>>
  /\ index = 1
  /\ page = MatchRoutes("/roles/1")
  /\ \E list \in ResourceLists :
       ui = [role |-> RoleDetail(1, list), loading |-> FALSE, error |-> Null]
  /\ requests = <<>>
  /\ selectedDifficulty = "All"

\* a ResourceList on its own: the user selects filter options
ResourceListNext == \E value \in FilterOptions : SelectDifficulty(value)

ResourceListSpec == ResourceListInit /\ [][ResourceListNext]_vars

\* the API client functions on their own
ApiClientNext ==
  \E call \in ApiCalls, outcome \in FetchOutcomes :
    ApiCall(call[1], call[2], outcome)

ApiClientSpec == Init /\ [][ApiClientNext]_vars

\* ---------------------------------------------------------------- claims
Has(r, field) == field \in DOMAIN r

\* C1: every stored resource's role_id is the id of a stored role.
C1_ResourceRoleExists ==
  \A r \in resources : \E role \in roles : role.id = r.role_id

\* a resource created through POST /api/resources is stored
C1_Witness ==
  /\ res.status = 201
  /\ res.req = "POST /api/resources"
  /\ res.resource \in resources

\* C2: deleting a role that a resource references fails and changes neither
\* table; a step removes a role only if no resource referenced it.
C2_DeleteRestrict ==
  [][/\ \A id \in 1..MaxRoleSeq :
          (SqlDeleteRole(id) /\ \E r \in resources : r.role_id = id)
            => /\ roles' = roles
               /\ resources' = resources
               /\ ~res'.ok
     /\ \A role \in roles \ roles' :
          \A r \in resources : r.role_id # role.id]_vars

\* a DELETE FROM roles was refused, a resource referencing the role
C2_Witness ==
  /\ Has(res, "sql")
  /\ res.sql = "DELETE FROM roles WHERE id"
  /\ ~res.ok
  /\ resources # {}

\* C3: no API request updates or removes a stored record: a step of a GET
\* handler leaves both tables as they are, and a step of a POST handler adds
\* at most one record and keeps every stored record as it is.
C3_CreateThenRead ==
  [][/\ roles \subseteq roles'
     /\ resources \subseteq resources'
     /\ Cardinality(roles' \ roles) + Cardinality(resources' \ resources) <= 1
     /\ (\E c \in Clients :
           \/ GetRoles(c)
           \/ \E params \in IdParams : GetRole(c, params)
           \/ GetRoleResources(c))
          => roles' = roles /\ resources' = resources]_vars

\* a role was created while another one was stored
C3_Witness ==
  /\ res.status = 201
  /\ res.req = "POST /api/roles"
  /\ roles \ {res.role} # {}

\* C4: every stored resource has a resource_type and a difficulty of the
\* three-value enumerations, however it was inserted.
C4_EnumColumns ==
  \A r \in resources :
    /\ r.resource_type \in {Str(t) : t \in ResourceTypes}
    /\ r.difficulty \in {Str(d) : d \in DifficultyLevels}

\* the seed script has completed on a table that also holds resources
\* created through the API or by direct calls
C4_Witness ==
  /\ Has(res, "seed")
  /\ res.seed = "completed"
  /\ Cardinality(resources) > Len(SAMPLE_RESOURCES)

\* C5: the ids of stored roles are positive and differ from each other, and
\* so are those of stored resources; a created record is stored under its id.
C5_UniquePositiveIds ==
  /\ \A r \in roles : r.id > 0 /\ \A q \in roles : q.id = r.id => q = r
  /\ \A r \in resources : r.id > 0 /\ \A q \in resources : q.id = r.id => q = r
  /\ (Has(res, "call") /\ res.ok /\ res.call = "createRole")
       => res.row.id > 0 /\ {q \in roles : q.id = res.row.id} = {res.row}
  /\ (Has(res, "call") /\ res.ok /\ res.call = "createResource")
       => res.row.id > 0 /\ {q \in resources : q.id = res.row.id} = {res.row}

\* the sequence is about to hand out the id of a stored role: the seed
\* script restarted it after a role was created
C5_Witness ==
  /\ seedPc = "insertRoles"
  /\ roles_id_seq \in Ids(roles)

\* C6: POST /api/resources with a body that passes validation and names a
\* role_id that is not the id of a stored role responds 404 'Role not found'
\* and stores no resource.
C6_UnknownRoleNotFound ==
  [][\A c \in Clients, body \in StoredResourceBodies :
       (/\ PostResources(c, body)
        /\ CreateResourceSchema(body)
        /\ \A role \in roles : Num(role.id) # body.role_id)
         => /\ res'.status = 404
            /\ res'.error = "Role not found"
            /\ resources' = resources
            /\ pc'[c] = "idle"]_vars

\* the string s consists of white space only (the empty string included)
OnlyWhiteSpace(s) == \A i \in 1..Len(s) : SubSeq(s, i, i) \in WhiteSpace

\* the body is one the claim C7 names as invalid
C7_InvalidBody(body) ==
  \/ \E f \in {"role_id", "title", "url", "resource_type", "difficulty"} :
       body[f] = Undefined
  \/ body.role_id.t # "number"
  \/ body.role_id.t = "number"
       /\ (body.role_id.frac # 0 \/ (body.role_id.hi = 0 /\ body.role_id.n <= 0))
  \/ body.title.t = "string"
       /\ (OnlyWhiteSpace(body.title.s) \/ Len(body.title.s) > 255)
  \/ body.url.t = "string" /\ ~IsUrl(body.url.s)
  \/ body.resource_type \notin {Str("Video"), Str("Article"), Str("Course")}
  \/ body.difficulty \notin {Str("Beginner"), Str("Intermediate"), Str("Advanced")}

C7_InvalidBodies == {body \in ResourceBodies : C7_InvalidBody(body)}

C8_Blank(v) == v = Undefined \/ (v.t = "string" /\ OnlyWhiteSpace(v.s))

\* the bodies the claim C8 names as invalid
C8_InvalidBodies ==
  {body \in RoleBodies :
     \/ C8_Blank(body.name)
     \/ C8_Blank(body.short_description)
     \/ body.name.t = "string" /\ Len(body.name.s) > 255}

\* the value of an optional field is present, absent or null
C8_Optional(v, type) == v.t \in {type, "undefined", "null"}

\* a list of strings
C8_StringList(v) == v.t = "array" => \A i \in 1..Len(v.a) : v.a[i].t = "string"

\* the bodies the claim C8 names as acceptable
C8_AcceptableBodies ==
  {body \in RoleBodies :
     /\ body.name.t = "string"
     /\ ~OnlyWhiteSpace(body.name.s)
     /\ Len(body.name.s) <= 255
     /\ body.short_description.t = "string"
     /\ ~OnlyWhiteSpace(body.short_description.s)
     /\ C8_Optional(body.long_description, "string")
     /\ C8_Optional(body.responsibilities, "array")
     /\ C8_StringList(body.responsibilities)
     /\ C8_Optional(body.skills, "array")
     /\ C8_StringList(body.skills)}

C9_ValidBodies == {body \in StoredResourceBodies : CreateResourceSchema(body)}

\* resource r is among the rows of the sequence
C9_Among(r, rows) == \E i \in 1..Len(rows) : rows[i] = r

\* C9: for a body that passes validation and names a stored role, the handler
\* of POST /api/resources goes on to create the resource and responds 201
\* with a resource whose id is new and whose role_id, title, url,
\* resource_type and difficulty are the request's; every stored resource
\* stays among the rows getResourcesByRoleId returns for its role, and is in
\* the resources of the 200 response of GET /api/roles/:id for that role.
C9_ResourceCreated ==
  [][/\ \A c \in Clients :
          /\ \A body \in C9_ValidBodies :
               (/\ PostResources(c, body)
                /\ \E role \in roles : Num(role.id) = body.role_id)
                 => pc'[c] = "createResource" /\ data'[c] = body
          /\ PostResourcesCreate(c) =>
               /\ res'.status = 201
               /\ res'.resource.id \notin Ids(resources)
               /\ Num(res'.resource.role_id) = data[c].role_id
               /\ res'.resource.title = data[c].title
               /\ res'.resource.url = data[c].url
               /\ res'.resource.resource_type = data[c].resource_type
               /\ res'.resource.difficulty = data[c].difficulty
               /\ res'.resource \in resources'
          /\ GetRoleResources(c) =>
               /\ res'.status = 200
               /\ \A r \in resources :
                    Num(r.role_id) = data[c].id => C9_Among(r, res'.role.resources)
     /\ \A r \in resources :
          LET q == ResourcesByRoleIdQuery(resources', Num(r.role_id))
          IN q.ok /\ C9_Among(r, q.rows)]_vars

\* a second resource was created for a role through POST /api/resources
C9_Witness ==
  /\ res.status = 201
  /\ res.req = "POST /api/resources"
  /\ Cardinality({r \in resources : r.role_id = res.resource.role_id}) >= 2

\* the fields of a role that a request gives
C10_Fields(role) ==
  [name |-> role.name,
   short_description |-> role.short_description,
   long_description |-> role.long_description,
   responsibilities |-> role.responsibilities,
   skills |-> role.skills]

\* the fields of the created role as the claim C10 states them: those of
\* the request, null for an omitted long_description, empty for an omitted list
C10_StatedFields(body) ==
  [name |-> body.name,
   short_description |-> body.short_description,
   long_description |->
     IF body.long_description = Undefined THEN Null ELSE body.long_description,
   responsibilities |->
     IF body.responsibilities = Undefined THEN Arr(<<>>) ELSE body.responsibilities,
   skills |-> IF body.skills = Undefined THEN Arr(<<>>) ELSE body.skills]

\* C10 as stated: the role of the 201 response of POST /api/roles has the
\* fields of the request, null for an omitted long_description and empty
\* for an omitted list.
C10_AsStated ==
  [][\A c \in Clients, body \in StoredRoleBodies :
       (PostRoles(c, body) /\ res'.status = 201)
         => C10_Fields(res'.role) = C10_StatedFields(body)]_vars

\* the fields of the created role: those of the request, null for a
\* long_description that is omitted, null or the empty string, empty for a
\* list that is omitted or null
C10_AmendedFields(body) ==
  [name |-> body.name,
   short_description |-> body.short_description,
   long_description |->
     IF body.long_description \in {Undefined, Null, Str("")}
       THEN Null ELSE body.long_description,
   responsibilities |->
     IF body.responsibilities \in {Undefined, Null}
       THEN Arr(<<>>) ELSE body.responsibilities,
   skills |-> IF body.skills \in {Undefined, Null} THEN Arr(<<>>) ELSE body.skills]

\* C10 (amended): the role of the 201 response of POST /api/roles has the
\* name, short_description, long_description, responsibilities and skills
\* of the request, where an omitted, null or empty long_description comes
\* back as null and an omitted or null list as empty; the role is stored,
\* stored roles stay as they are, and the role of a 200 response of
\* GET /api/roles/:id has the fields of the stored role of that id.
C10_RoleRoundTrip ==
  [][/\ \A c \in Clients :
          /\ \A body \in StoredRoleBodies :
               (PostRoles(c, body) /\ res'.status = 201)
                 => /\ C10_Fields(res'.role) = C10_AmendedFields(body)
                    /\ res'.role \in roles'
          /\ (GetRoleResources(c) /\ res'.status = 200)
               => \E role \in roles' :
                    /\ role.id = res'.role.id
                    /\ Num(role.id) = data[c].id
                    /\ C10_Fields(role) = C10_Fields(res'.role)
     /\ roles \subseteq roles']_vars

\* GET /api/roles/:id has returned a role that was created without a
\* long_description, or with an empty one
C10_Witness ==
  /\ res.status = 200
  /\ res.req = "GET /api/roles/:id"
  /\ res.role.long_description = Null

\* the fields of the role of a 200 response of GET /api/roles/:id
C11_RoleFields ==
  {"id", "name", "short_description", "long_description", "responsibilities",
   "skills", "resources"}

\* C11: GET /api/roles/:id responds 400 'Invalid ID format' when id is not
\* numeric (a string of digits), 404 'Role not found' when it is numeric and
\* no stored role has that id, and otherwise goes on to respond 200 with the
\* role's fields and a resources array.
C11_GetRoleResponses ==
  [][\A c \in Clients :
       /\ \A params \in IdParams :
            GetRole(c, params) =>
              IF ~IsDigits(params.id)
                THEN res'.status = 400 /\ res'.error = "Invalid ID format"
              ELSE IF \A role \in roles : Num(role.id) # ToNumber(params.id)
                THEN res'.status = 404 /\ res'.error = "Role not found"
              ELSE pc'[c] = "getRoleResources"
       /\ GetRoleResources(c) =>
            /\ res'.status = 200
            /\ DOMAIN res'.role = C11_RoleFields
            /\ \E role \in roles :
                 \A f \in C11_RoleFields \ {"resources"} : res'.role[f] = role[f]]_vars

\* the path parameter is the decimal notation of a positive integer
C12_PositiveInteger(s) ==
  IsDigits(s) /\ \E i \in 1..Len(s) : SubSeq(s, i, i) # "0"

\* C12: GET /api/roles/:id responds 400 for every id that is not a positive
\* integer; only positive integer ids reach the database lookup.
C12_OnlyPositiveIdsLookedUp ==
  [][\A c \in Clients, params \in IdParams :
       (GetRole(c, params) /\ ~C12_PositiveInteger(params.id))
         => res'.status = 400]_vars

\* C13: GET /api/roles responds 200 with a roles array that holds every
\* stored role exactly once, in ascending id order, each entry with the
\* fields id, name and short_description only; the array is empty when no
\* role is stored.
C13_AllRolesListed ==
  [][\A c \in Clients :
       GetRoles(c) =>
         /\ res'.status = 200
         /\ Len(res'.roles) = Cardinality(roles)
         /\ \A role \in roles :
              Cardinality({i \in 1..Len(res'.roles) :
                             /\ res'.roles[i].id = role.id
                             /\ res'.roles[i].name = role.name
                             /\ res'.roles[i].short_description
                                  = role.short_description}) = 1
         /\ \A i \in 1..Len(res'.roles) :
              DOMAIN res'.roles[i] = {"id", "name", "short_description"}
         /\ \A i \in 1..Len(res'.roles) - 1 :
              res'.roles[i].id < res'.roles[i + 1].id
         /\ roles = {} => res'.roles = <<>>]_vars

\* GET /api/roles has listed two roles
C13_Witness ==
  /\ res.status = 200
  /\ res.req = "GET /api/roles"
  /\ Len(res.roles) >= 2

\* C14: the resources array of the 200 response of GET /api/roles/:id holds
\* exactly the stored resources whose role_id is the id asked for, each
\* once, in ascending id order.
C14_ResourcesOfRole ==
  [][\A c \in Clients :
       (GetRoleResources(c) /\ res'.status = 200) =>
         LET rows == res'.role.resources
             mine == {r \in resources : Num(r.role_id) = data[c].id}
         IN /\ Num(res'.role.id) = data[c].id
            /\ Len(rows) = Cardinality(mine)
            /\ \A i \in 1..Len(rows) : rows[i] \in mine
            /\ \A r \in mine : \E i \in 1..Len(rows) : rows[i] = r
            /\ \A i \in 1..Len(rows) - 1 : rows[i].id < rows[i + 1].id]_vars

\* GET /api/roles/:id has returned one resource of a role while a resource
\* of another role is stored
C14_Witness ==
  /\ res.status = 200
  /\ res.req = "GET /api/roles/:id"
  /\ Len(res.role.resources) = 1
  /\ \E r \in resources : r.role_id # res.role.id

\* the request that the latest run of the mounted component's effect started
\* has not settled
C15_RequestInFlight ==
  /\ requests # <<>>
  /\ \/ page.name = "LandingPage"
     \/ /\ page.name = "RoleDetailPage"
        /\ ~JsNumber(page.id).nan
        /\ requests[Len(requests)].arg = ToString(JsNumber(page.id).n)

Contains(text, part) ==
  \E k \in 0..(Len(text) - Len(part)) : SubSeq(text, k + 1, k + Len(part)) = part

\* the rejected outcomes of the requests of the components
C16_Rejections ==
  {o \in ComponentOutcomes([fn |-> "getAllRoles", arg |-> ""])
           \cup ComponentOutcomes([fn |-> "getRoleById", arg |-> "1"])
           \cup ComponentOutcomes([fn |-> "getRoleById", arg |-> "2"]) : ~o.ok}

RECURSIVE ExpectedItems(_, _)
ExpectedItems(list, selected) ==
  IF list = <<>> THEN <<>>
  ELSE (IF selected = "All" \/ Head(list).difficulty = selected
          THEN <<Head(list)>> ELSE <<>>)
       \o ExpectedItems(Tail(list), selected)

\* C17: ResourceList displays exactly the resources whose difficulty is the
\* selected one, in their original order, and 'No resources available'
\* exactly when there is none of them; with 'All', the initial selection,
\* it displays all resources.
C17_FilterDisplays ==
  ResourceListMounted(page, ui) =>
    LET shown == View.resourceList IN
    /\ shown.select = selectedDifficulty
    /\ shown.items = ExpectedItems(ui.role.resources, selectedDifficulty)
    /\ shown.message = "No resources available" <=> shown.items = <<>>
    /\ selectedDifficulty = "All" => shown.items = ui.role.resources

\* 'Beginner' is selected and two of three resources are displayed
C17_Witness ==
  /\ ResourceListMounted(page, ui)
  /\ selectedDifficulty = "Beginner"
  /\ Len(ui.role.resources) = 3
  /\ Len(View.resourceList.items) = 2

\* C18: what ResourceList displays after a selection depends only on that
\* selection and on the resources it was given, whatever was selected
\* before; selecting 'All' displays all of them again; no selection changes
\* the resources.
C18_LastSelectionOnly ==
  [][\A value \in FilterOptions :
       SelectDifficulty(value) =>
         /\ View'.resourceList.items = ExpectedItems(ui.role.resources, value)
         /\ value = "All" => View'.resourceList.items = ui.role.resources
         /\ ui' = ui]_vars

\* a selection that hides resources was followed by another one, which
\* displays the one resource it asks for among three
C18_Witness ==
  /\ ResourceListMounted(page, ui)
  /\ selectedDifficulty = "Intermediate"
  /\ Len(ui.role.resources) = 3
  /\ Len(View.resourceList.items) = 1

\* the characters of s from the k-th on contain a slash
HasSlashFrom(s, k) == \E i \in k..Len(s) : SubSeq(s, i, i) = "/"

\* the page that the claim names for a path
C19_PageOf(path) ==
  IF path = "/"
    THEN [name |-> "LandingPage", id |-> ""]
  ELSE IF Len(path) > 7 /\ SubSeq(path, 1, 7) = "/roles/" /\ ~HasSlashFrom(path, 8)
    THEN [name |-> "RoleDetailPage", id |-> SubSeq(path, 8, Len(path))]
  ELSE [name |-> "NotFoundPage", id |-> ""]

C20_Responses == {o \in FetchOutcomes : o.t = "response"}

\* what the claim says a call settles with, given the response
C20_AsStated(response, result) ==
  IF ResponseOk(response)
    THEN response.body.json =>
           result.ok /\ result.value = response.body.value
    ELSE /\ ~result.ok
         /\ result.error.name = "ApiError"
         /\ result.error.status = response.status
         /\ result.error.statusText = response.statusText
         /\ response.body.json =>
              result.error.details =
                IF "details" \in DOMAIN response.body.value
                  THEN response.body.value.details
                  ELSE response.body.value.error

\* C20: getAllRoles, getRoleById, createRole and createResource return the
\* parsed body of an ok response and throw, for every response that is not
\* 2xx, an ApiError with the status and the status text of the response and
\* with the details field of the body or, when it has none, its error
\* field.  Violated: the body is parsed before response.ok is tested, so a
\* response that is not 2xx and whose body is not JSON text ends in the
\* SyntaxError of response.json().
C20_ApiClientResults ==
  [][\A call \in ApiCalls : \A o \in C20_Responses :
       ApiCall(call[1], call[2], o) => C20_AsStated(o, res')]_vars

\* the errors the backend meets while it handles a request
C21_Errors == {ConnectionError, OutOfRangeError, ConstraintError, JsonParseError}

\* C21: for every error the backend meets while it handles a request, the
\* message and the stack trace of the error are written to the error log
\* before the error response is sent: no response of status 500 without log
\* lines of that request, written while its response was not yet sent.
C21_LoggedBeforeResponse ==
  res.status = 500 =>
    \E e \in C21_Errors :
      /\ \E i \in 1..Len(log) : ~log[i].sent /\ Contains(log[i].text, e.message)
      /\ \E i \in 1..Len(log) : ~log[i].sent /\ Contains(log[i].text, e.stack)

\* the insert of POST /api/resources was rejected by the stopped database
\* server: the catch block has logged the error and answered 500
C21_Witness ==
  /\ res.status = 500
  /\ Has(res, "req")
  /\ res.req = "POST /api/resources"
  /\ ~dbUp
  /\ resources = {}
  /\ roles # {}
  /\ Len(log) = 1
  /\ log[1].label = "Error creating resource:"

\* the clients whose request has not been answered yet
C22_Waiting == {c \in Clients : pc[c] # "idle"}

\* C22: every request to one of the four endpoints gets exactly one
\* response, of status 200, 201, 400, 404 or 500; when a query of the request
\* fails, the response is 500 with an error body; every response that is
\* not 2xx has an error field.  Each step of a handler either sends the one
\* response of its request and ends, or sends nothing and waits for a query;
\* while the database server is stopped no step answers 200, 201 or 404 and
\* nothing is stored.
C22_OneResponse ==
  [][dbUp' = dbUp =>
       /\ IF Has(res', "req")
            THEN /\ C22_Waiting' \subseteq C22_Waiting
                 /\ res'.status \in {200, 201, 400, 404, 500}
                 /\ res'.status \notin {200, 201} =>
                      Has(res', "error") /\ res'.error # ""
            ELSE /\ res' = NoResponse
                 /\ C22_Waiting \subseteq C22_Waiting'
                 /\ Cardinality(C22_Waiting') = Cardinality(C22_Waiting) + 1
       /\ ~dbUp =>
            /\ Has(res', "req")
            /\ res'.status \in {400, 500}
            /\ res'.status = 400 =>
                 res'.error \in {"Validation failed", "Invalid ID format"}
            /\ UNCHANGED dbVars]_vars

\* a GET /api/roles/:id is answered 500 while the database server is stopped
C22_Witness ==
  /\ res.status = 500
  /\ Has(res, "req")
  /\ res.req = "GET /api/roles/:id"
  /\ res.error = "Failed to fetch role"
  /\ ~dbUp
  /\ roles # {}
  /\ \A c \in Clients : pc[c] = "idle"

\* the bodies that CreateResourceSchema rejects, among them one that names
\* a role that does not exist
C23_InvalidBodies == {body \in StoredResourceBodies : ~CreateResourceSchema(body)}

\* C23: POST /api/resources validates the body, then queries whether the
\* role exists, then inserts.  A body that fails validation is answered 400
\* without a query (also when it names a role that does not exist and when
\* the database server is stopped); the handler goes on to its insert only
\* after its existence query found the role, and a resource is stored only
\* by that insert.
C23_ValidateExistsInsert ==
  [][\A c \in Clients :
       /\ \/ /\ Has(res', "req")
             /\ res'.req = "POST /api/resources"
             /\ res'.status = 400
             /\ pc'[c] = "idle"
             /\ UNCHANGED dbVars
          \/ \A body \in C23_InvalidBodies : ~PostResources(c, body)
       /\ (pc[c] # "createResource" /\ pc'[c] = "createResource") =>
            /\ CreateResourceSchema(data'[c])
            /\ Int4Param(data'[c].role_id).ok
            /\ Int4Param(data'[c].role_id).n \in Ids(roles)
            /\ dbUp
            /\ UNCHANGED dbVars
       /\ resources' # resources =>
            \E d \in Clients : pc[d] = "createResource" /\ pc'[d] = "idle"]_vars

\* an invalid body has been answered 400 while no role existed and the
\* database server was stopped
C23_Witness ==
  /\ Has(res, "req")
  /\ res.req = "POST /api/resources"
  /\ res.status = 400
  /\ res.error = "Validation failed"
  /\ ~dbUp
  /\ roles = {}

C25_MalformedJsonIs400 ==
  [][\A c \in Clients : \A path \in PostPaths :
       PostMalformedJson(c, path)
         => /\ res'.status = 400
            /\ roles' = roles
            /\ resources' = resources]_vars


\* the position of the sample role of the given name in SAMPLE_ROLES
C26_SampleRoleIndex(name) ==
  CHOOSE i \in 1..Len(SAMPLE_ROLES) : SAMPLE_ROLES[i].name = name

\* the roles table that holds the sample roles, numbered in their order
C26_SampleRolesTable ==
  {[id |-> i,
    name |-> Str(SAMPLE_ROLES[i].name),
    short_description |-> Str(SAMPLE_ROLES[i].short_description),
    long_description |-> Str(SAMPLE_ROLES[i].long_description),
    responsibilities |-> StrArr(SAMPLE_ROLES[i].responsibilities),
    skills |-> StrArr(SAMPLE_ROLES[i].skills)] : i \in 1..Len(SAMPLE_ROLES)}

\* the resources table that holds the sample resources, numbered in their
\* order, each attached to the role its role_name names
C26_SampleResourcesTable ==
  {[id |-> j,
    role_id |-> C26_SampleRoleIndex(SAMPLE_RESOURCES[j].role_name),
    title |-> Str(SAMPLE_RESOURCES[j].title),
    url |-> Str(SAMPLE_RESOURCES[j].url),
    resource_type |-> Str(SAMPLE_RESOURCES[j].resource_type),
    difficulty |-> Str(SAMPLE_RESOURCES[j].difficulty)] :
     j \in 1..Len(SAMPLE_RESOURCES)}

\* C26: a run of the seed script on a migrated database, whatever roles and
\* resources it held before, never fails (the delete-restrict rule does not
\* block it, as the resources are removed before the roles) and ends with
\* exactly the 5 sample roles and the 20 sample resources, each resource
\* attached to the role its sample names and each role with at least 3
\* resources; every run, the second included, ends with the same rows and
\* the same ids 1..5 and 1..20.
C26_SeedResult ==
  /\ ~(Has(res, "seed") /\ res.seed = "failed")
  /\ (Has(res, "seed") /\ res.seed = "completed")
       => /\ Len(SAMPLE_ROLES) = 5
          /\ Len(SAMPLE_RESOURCES) = 20
          /\ roles = C26_SampleRolesTable
          /\ resources = C26_SampleResourcesTable
          /\ Cardinality(roles) = 5
          /\ Cardinality(resources) = 20
          /\ \A role \in roles :
               Cardinality({r \in resources : r.role_id = role.id}) >= 3
          /\ \A r \in resources : \E role \in roles :
               /\ role.id = r.role_id
               /\ \E j \in 1..Len(SAMPLE_RESOURCES) :
                    /\ Str(SAMPLE_RESOURCES[j].title) = r.title
                    /\ Str(SAMPLE_RESOURCES[j].role_name) = role.name

C26_Witness ==
  /\ Has(res, "seed")
  /\ res.seed = "completed"
  /\ Cardinality(roles) = 5
  /\ Cardinality(resources) = 20
  /\ roles_id_seq = 6
  /\ resources_id_seq = 21

====
